---- MODULE Spec2Model ----
(***************************************************************************)
(* Model of the adaptive chunking core of the RAG backend:                 *)
(*   src/src/services/chunking_strategy.py  (FormulaReconstructor,         *)
(*       SemanticChunker, expand_context_with_neighbors)                   *)
(*   src/src/services/adaptive_chunker.py   (detect_block_type,            *)
(*       get_chunk_params)                                                 *)
(*   src/src/services/ingest.py             (process_document_with_docling)*)
(*   src/src/services/rag.py                (query_documents)              *)
(*                                                                         *)
(* A Python str is a sequence of code points.  It is modelled as a         *)
(* sequence whose entries are one-code-point strings; code points outside  *)
(* ASCII carry a name: "sup2" is U+00B2, "sup3" is U+00B3, "times" is      *)
(* U+00D7.  len() is Len, slicing is SubSeq.                               *)
(***************************************************************************)
EXTENDS Integers, Sequences, FiniteSets, TLC

VARIABLES
    \* ---- SemanticChunker.group_elements ----
    min_chunk_size, max_chunk_size, overlap_size,   \* SemanticChunker.__init__
    elements,          \* the input list, as far as the loop has consumed it
    chunks,            \* the output list
    current_buffer, current_length, current_page, current_section,
    formula_buffer,
    pc,                \* "loop": inside the for loop; "done": returned
    trace,             \* history: one record per consumed element (write-only)
    last               \* history: the last call of _create_chunk: the index it
                       \* happened at, its argument, its result and the length
                       \* of chunks before it (write-only)

VARIABLES
    \* ---- expand_context_with_neighbors ----
    all_chunks,        \* the argument chunks
    n_before, n_after, \* the arguments n_before and n_after
    target_indices,    \* the argument target_indices, as far as the loop has read it
    expanded_indices,
    result,            \* the returned list
    xpc                \* "idle", "loop", "done", or "IndexError"

VARIABLES
    \* ---- detect_block_type ----
    blocks,            \* the pieces the argument text is made of (history)
    text_in,           \* the argument text
    block_type,        \* the returned category, "pending" before the call
    \* ---- get_chunk_params ----
    category,          \* the argument block_type of get_chunk_params
    params             \* <<>> before the call, then <<the returned dict>>

VARIABLES
    \* ---- FormulaReconstructor ----
    frag_text,         \* the argument text of is_formula_fragment
    is_fragment,       \* <<>> before the call, then <<the returned bool>>
    fragments_in,      \* the argument fragments of reconstruct_formula
    formula_out,       \* <<>> before the call, then <<the returned str>>
    fpc                \* "idle", "call" or "done"

VARIABLES
    \* ---- process_document_with_docling (ingest.py) ----
    vectorstore,       \* the Chroma collection of the user: id -> stored document
    documents,         \* the Document table: doc_id -> record
    n_runs,            \* the number of ingestion runs so far
    run                \* history: what the last run did (write-only)

VARIABLES
    \* ---- query_documents (rag.py) ----
    collection,        \* the user's Chroma collection: the stored documents'
                       \* metadata, in decreasing similarity to the question
    top_k,             \* the argument top_k
    expand_neighbors,  \* the argument expand_neighbors
    query_before,      \* the argument n_before of query_documents
    query_after,       \* the argument n_after of query_documents
    results,           \* the direct similarity hits
    context_chunks,    \* the returned chunk list
    qpc                \* "idle", "call" or "done"

groupVars == <<min_chunk_size, max_chunk_size, overlap_size, elements, chunks,
               current_buffer, current_length, current_page, current_section,
               formula_buffer, pc, trace, last>>
expandVars == <<all_chunks, n_before, n_after, target_indices, expanded_indices,
                result, xpc>>
classifyVars == <<blocks, text_in, block_type, category, params>>

formulaVars == <<frag_text, is_fragment, fragments_in, formula_out, fpc>>
ingestVars == <<vectorstore, documents, n_runs, run>>
queryVars == <<collection, top_k, expand_neighbors, query_before, query_after,
               results, context_chunks, qpc>>
vars == <<groupVars, expandVars, classifyVars, formulaVars, ingestVars, queryVars>>

-----------------------------------------------------------------------------
(* Bounds of the model.                                                    *)

\* longest input stream of the general specification
MaxElems == 3
\* longest input stream of the paged specification (the five-element case)
MaxPagedElems == 5
\* longest chunk list, largest n_before/n_after and longest target list given
\* to expand_context_with_neighbors
MaxChunks == 10
MaxNeighbors == 2
MaxTargets == 2
\* the most pieces a classified text is made of
MaxBlocks == 3
MaxPolicyBlocks == 2
MaxFragmentLen == 4
MaxFragments == 3
MaxRuns == 3
\* query_documents: the most stored chunks, the highest chunk index per
\* document, the largest top_k and the largest n_before/n_after
MaxStored == 3
MaxStoredIdx == 1
MaxTopK == 2
MaxOffset == 3

-----------------------------------------------------------------------------
(* Python str primitives.                                                  *)

Whitespace == {" ", "\n", "\t"}
DigitChars == {"0", "1", "2", "3", "4", "5", "6", "7", "8", "9", "sup2", "sup3"}
DecimalChars == {"0", "1", "2", "3", "4", "5", "6", "7", "8", "9"}
LowerChars == {"a", "b", "c", "d", "e", "f", "g", "h", "i", "j", "k", "l", "m",
               "n", "o", "p", "q", "r", "s", "t", "u", "v", "w", "x", "y", "z",
               "c_cedilla", "a_tilde", "o_tilde", "e_circ"}
UpperChars == {"A", "B", "C", "D", "E", "F", "G", "H", "I", "J", "K", "L", "M",
               "N", "O", "P", "Q", "R", "S", "T", "U", "V", "W", "X", "Y", "Z",
               "C_CEDILLA", "A_TILDE", "O_TILDE", "E_CIRC"}
AlphaChars == LowerChars \cup UpperChars
\* what the regex class \w matches (str patterns are Unicode-aware: letters,
\* everything str.isalnum() accepts, and the underscore)
WordChars == AlphaChars \cup DigitChars \cup {"_"}

RECURSIVE LStrip(_)
LStrip(s) == IF s # <<>> /\ Head(s) \in Whitespace THEN LStrip(Tail(s)) ELSE s

RECURSIVE RStrip(_)
RStrip(s) ==
    IF s # <<>> /\ s[Len(s)] \in Whitespace THEN RStrip(SubSeq(s, 1, Len(s) - 1)) ELSE s

\* str.strip()
Strip(s) == RStrip(LStrip(s))

\* str.isdigit(): non-empty and every code point is a digit (superscripts included)
IsDigit(s) == s # <<>> /\ \A i \in 1..Len(s) : s[i] \in DigitChars

\* str.isalpha()
IsAlpha(s) == s # <<>> /\ \A i \in 1..Len(s) : s[i] \in AlphaChars

\* sep.join(parts)
RECURSIVE Join(_, _)
Join(sep, parts) ==
    IF parts = <<>> THEN <<>>
    ELSE IF Len(parts) = 1 THEN parts[1]
    ELSE parts[1] \o sep \o Join(sep, Tail(parts))

\* the number of leading whitespace code points of s (what \s* consumes)
RECURSIVE WsRun(_)
WsRun(s) == IF s # <<>> /\ Head(s) \in Whitespace THEN 1 + WsRun(Tail(s)) ELSE 0

Drop(s, n) == SubSeq(s, n + 1, Len(s))

\* re.sub(r'\s+', ' ', s)
RECURSIVE CollapseWs(_)
CollapseWs(s) ==
    IF s = <<>> THEN <<>>
    ELSE IF Head(s) \in Whitespace THEN <<" ">> \o CollapseWs(Drop(s, WsRun(s)))
    ELSE <<Head(s)>> \o CollapseWs(Tail(s))

\* [f(x) for x in s if p(x)] helpers over sequences
RECURSIVE SelectNonEmpty(_)
SelectNonEmpty(s) ==
    IF s = <<>> THEN <<>>
    ELSE IF Head(s) # <<>> THEN <<Head(s)>> \o SelectNonEmpty(Tail(s))
    ELSE SelectNonEmpty(Tail(s))

-----------------------------------------------------------------------------
(* FormulaReconstructor                                                    *)

MathChars == {"=", "(", ")", "sup2", "sup3", "+", "-", "times", "/"}

\* mutant: the text is tested as given
is_formula_fragment_untrimmed(text) ==
    \/ Len(text) <= 3 /\ \E i \in 1..Len(text) : text[i] \in MathChars
    \/ Len(text) <= 2 /\ (IsDigit(text) \/ IsAlpha(text))
    \/ text \in {<<"=">>, <<"+">>, <<"-">>, <<"times">>, <<"/">>, <<"(">>, <<")">>,
                 <<"sup2">>, <<"sup3">>}

is_formula_fragment(text) ==
    LET t == Strip(text) IN
    \/ Len(t) <= 3 /\ \E i \in 1..Len(t) : t[i] \in MathChars
    \/ Len(t) <= 2 /\ (IsDigit(t) \/ IsAlpha(t))
    \/ t \in {<<"=">>, <<"+">>, <<"-">>, <<"times">>, <<"/">>, <<"(">>, <<")">>,
              <<"sup2">>, <<"sup3">>}

\* re.sub(r'(\w)\s+D(?!\w)', r'\1S', text) for a digit D and its superscript S
RECURSIVE SubPower(_, _, _)
SubPower(s, d, sup) ==
    IF s = <<>> THEN <<>>
    ELSE
        LET rest == Tail(s)
            w    == WsRun(rest)
            aft  == Drop(rest, w)
        IN  IF /\ Head(s) \in WordChars
               /\ w >= 1
               /\ aft # <<>> /\ Head(aft) = d
               /\ (Len(aft) = 1 \/ aft[2] \notin WordChars)
            THEN <<Head(s), sup>> \o SubPower(Tail(aft), d, sup)
            ELSE <<Head(s)>> \o SubPower(rest, d, sup)

_normalize_powers(text) == SubPower(SubPower(text, "2", "sup2"), "3", "sup3")

\* re.sub(r'\s*[ops]\s*', ' op ', text)
RECURSIVE SubOperator(_, _, _)
SubOperator(s, ops, op) ==
    IF s = <<>> THEN <<>>
    ELSE
        LET w   == WsRun(s)
            aft == Drop(s, w)
        IN  IF aft # <<>> /\ Head(aft) \in ops
            THEN <<" ", op, " ">>
                 \o SubOperator(Drop(Tail(aft), WsRun(Tail(aft))), ops, op)
            ELSE <<Head(s)>> \o SubOperator(Tail(s), ops, op)

_normalize_operators(text) ==
    SubOperator(SubOperator(SubOperator(text, {".", "times"}, "times"),
                            {"/"}, "/"),
                {"="}, "=")

\* mutant: the runs of whitespace are collapsed and the ends are kept
_normalize_spacing_untrimmed(text) == CollapseWs(text)

_normalize_spacing(text) == Strip(CollapseWs(text))

RECURSIVE StripAll(_)
StripAll(frags) ==
    IF frags = <<>> THEN <<>> ELSE <<Strip(Head(frags))>> \o StripAll(Tail(frags))

reconstruct_formula(fragments) ==
    IF fragments = <<>> THEN <<>>
    ELSE _normalize_spacing(_normalize_operators(_normalize_powers(
             Join(<<" ">>, SelectNonEmpty(StripAll(fragments))))))

-----------------------------------------------------------------------------
(* SemanticChunker                                                         *)

\* current_section = None
NoneValue == <<"<None>">>
\* a buffer entry built without a 'section' key
NoSectionKey == <<"<no key>">>
\* current_page = None
NonePage == -1

\* Python truthiness of an Optional[str]
Truthy(s) == s # NoneValue /\ s # <<>>

RECURSIVE ToLower(_)
ToLower(s) ==
    IF s = <<>> THEN <<>>
    ELSE LET c == Head(s)
             lc == CASE c = "A" -> "a" [] c = "B" -> "b" [] c = "C" -> "c"
                     [] c = "D" -> "d" [] c = "E" -> "e" [] c = "F" -> "f"
                     [] c = "G" -> "g" [] c = "H" -> "h" [] c = "I" -> "i"
                     [] c = "J" -> "j" [] c = "K" -> "k" [] c = "L" -> "l"
                     [] c = "M" -> "m" [] c = "N" -> "n" [] c = "O" -> "o"
                     [] c = "P" -> "p" [] c = "Q" -> "q" [] c = "R" -> "r"
                     [] c = "S" -> "s" [] c = "T" -> "t" [] c = "U" -> "u"
                     [] c = "V" -> "v" [] c = "W" -> "w" [] c = "X" -> "x"
                     [] c = "Y" -> "y" [] c = "Z" -> "z"
                     [] c = "C_CEDILLA" -> "c_cedilla"
                     [] c = "A_TILDE" -> "a_tilde"
                     [] c = "O_TILDE" -> "o_tilde"
                     [] c = "E_CIRC" -> "e_circ"
                     [] OTHER -> c
         IN <<lc>> \o ToLower(Tail(s))

minor_headers ==
    { <<"e","x","e","m","p","l","o">>, <<"e","x","e","m","p","l","o","s">>,
      <<"n","o","t","a">>, <<"n","o","t","a","s">>,
      <<"o","b","s","e","r","v","a","c_cedilla","a_tilde","o">>,
      <<"o","b","s","e","r","v","a","c","a","o">>,
      <<"o","b","s","e","r","v","a","c_cedilla","o_tilde","e","s">>,
      <<"o","b","s","e","r","v","a","c","o","e","s">>,
      <<"a","t","e","n","c_cedilla","a_tilde","o">>, <<"a","t","e","n","c","a","o">>,
      <<"i","m","p","o","r","t","a","n","t","e">>,
      <<"d","i","c","a">>, <<"d","i","c","a","s">>,
      <<"a","v","i","s","o">>, <<"a","v","i","s","o","s">> }

\* mutant: the header is compared without lower-casing
_is_minor_header_cased(header) ==
    IF ~Truthy(header) THEN FALSE
    ELSE LET h0 == Strip(header)
             h  == IF h0 # <<>> /\ h0[Len(h0)] = ":"
                   THEN Strip(SubSeq(h0, 1, Len(h0) - 1)) ELSE h0
         IN h \in minor_headers

_is_minor_header(header) ==
    IF ~Truthy(header) THEN FALSE
    ELSE LET h0 == ToLower(Strip(header))
             h  == IF h0 # <<>> /\ h0[Len(h0)] = ":"
                   THEN Strip(SubSeq(h0, 1, Len(h0) - 1)) ELSE h0
         IN h \in minor_headers

GetSection(item) == IF item.section = NoSectionKey THEN <<>> ELSE item.section

\* the texts list of _create_chunk (lines 332-340)
RECURSIVE ChunkTexts(_)
ChunkTexts(buffer) ==
    IF buffer = <<>> THEN <<>>
    ELSE LET item == Head(buffer)
             text == Strip(item.text)
         IN  (IF text = <<>> THEN <<>>
              ELSE IF item.type \in {"formula", "equation"}
                   THEN << <<"\n">> \o text \o <<"\n">> >>
                   ELSE <<text>>)
             \o ChunkTexts(Tail(buffer))

CombinedText(buffer) == Strip(CollapseWs(Join(<<" ">>, ChunkTexts(buffer))))

BufferTypes(buffer) == {buffer[i].type : i \in 1..Len(buffer)}

\* mutant: the table test precedes the formula test
ChunkTypeTableFirst(types) ==
    IF "table" \in types THEN "table"
    ELSE IF "formula" \in types \/ "equation" \in types
    THEN (IF "text" \in types THEN "mixed" ELSE "formula")
    ELSE "text"

ChunkType(types) ==
    IF "formula" \in types \/ "equation" \in types
    THEN (IF "text" \in types THEN "mixed" ELSE "formula")
    ELSE IF "table" \in types THEN "table"
    ELSE "text"

\* mutant: has_formula overlooks the type 'equation'
MakeChunkFormulaOnly(buffer) ==
            [ text        |-> CombinedText(buffer),
              page        |-> buffer[1].page,
              chunk_type  |-> ChunkType(BufferTypes(buffer)),
              element_ids |-> [i \in 1..Len(buffer) |-> buffer[i].element_id],
              metadata    |-> [ num_elements |-> Len(buffer),
                                types        |-> BufferTypes(buffer),
                                section      |-> GetSection(buffer[1]),
                                has_formula  |-> "formula" \in BufferTypes(buffer) ] ]

\* mutant: the chunk takes the page of its last sub-element
MakeChunkLastPage(buffer) ==
            [ text        |-> CombinedText(buffer),
              page        |-> buffer[Len(buffer)].page,
              chunk_type  |-> ChunkType(BufferTypes(buffer)),
              element_ids |-> [i \in 1..Len(buffer) |-> buffer[i].element_id],
              metadata    |-> [ num_elements |-> Len(buffer),
                                types        |-> BufferTypes(buffer),
                                section      |-> GetSection(buffer[1]),
                                has_formula  |-> ("formula" \in BufferTypes(buffer)
                                                  \/ "equation" \in BufferTypes(buffer)) ] ]

MakeChunk(buffer) ==
            [ text        |-> CombinedText(buffer),
              page        |-> buffer[1].page,
              chunk_type  |-> ChunkType(BufferTypes(buffer)),
              element_ids |-> [i \in 1..Len(buffer) |-> buffer[i].element_id],
              metadata    |-> [ num_elements |-> Len(buffer),
                                types        |-> BufferTypes(buffer),
                                section      |-> GetSection(buffer[1]),
                                has_formula  |-> ("formula" \in BufferTypes(buffer)
                                                  \/ "equation" \in BufferTypes(buffer)) ] ]

\* mutant: the short singleton is not rejected
_create_chunk_keep_short(buffer) ==
    IF buffer = <<>> THEN <<>> ELSE <<MakeChunk(buffer)>>

\* Optional[SemanticChunk] is a sequence of zero or one chunk
_create_chunk(buffer) ==
    IF buffer = <<>> THEN <<>>
    ELSE IF Len(CombinedText(buffer)) < min_chunk_size /\ Len(buffer) = 1 THEN <<>>
    ELSE <<MakeChunk(buffer)>>

RECURSIVE ItemTexts(_)
ItemTexts(buffer) ==
    IF buffer = <<>> THEN <<>>
    ELSE (IF Head(buffer).text # <<>> THEN <<Head(buffer).text>> ELSE <<>>)
         \o ItemTexts(Tail(buffer))

\* mutant: the overlap is cut from the head of the text
_get_overlap_text_head(buffer) ==
    IF buffer = <<>> THEN <<>>
    ELSE LET all_text == Join(<<" ">>, ItemTexts(buffer))
         IN  IF Len(all_text) <= overlap_size THEN all_text
             ELSE SubSeq(all_text, 1, overlap_size)

_get_overlap_text(buffer) ==
    IF buffer = <<>> THEN <<>>
    ELSE LET all_text == Join(<<" ">>, ItemTexts(buffer))
         IN  IF Len(all_text) <= overlap_size THEN all_text
             ELSE SubSeq(all_text, Len(all_text) - overlap_size + 1, Len(all_text))

Item(text, page, type, id, section) ==
    [text |-> text, page |-> page, type |-> type, element_id |-> id, section |-> section]

\* mutant: the pending fragments are forgotten instead of joining the buffer
WithFormulaForgotten(buffer, page, idx) == buffer

\* lines 238-248: the pending formula fragments join the main buffer
WithFormula(buffer, page, idx) ==
    LET reconstructed == reconstruct_formula(formula_buffer)
    IN  IF formula_buffer # <<>> /\ reconstructed # <<>>
        THEN Append(buffer, Item(reconstructed, page, "formula", idx, NoSectionKey))
        ELSE buffer

WithFormulaLength(length) ==
    LET reconstructed == reconstruct_formula(formula_buffer)
    IN  IF formula_buffer # <<>> THEN length + Len(reconstructed) ELSE length

\* mutant: the minor-header test inverted
SectionChangedInverted(section) ==
    /\ Truthy(current_section)
    /\ Truthy(section)
    /\ section # current_section
    /\ _is_minor_header(section)

\* lines 252-257
SectionChanged(section) ==
    /\ Truthy(current_section)
    /\ Truthy(section)
    /\ section # current_section
    /\ ~_is_minor_header(section)

\* mutant: the page rule compares against the first page only
PageChangedForward(page) == current_page # NonePage /\ page > current_page

PageChanged(page) == current_page # NonePage /\ page # current_page

\* mutant: the size rule without its minimum
SizeRuleNoMinimum(length, text) == length + Len(text) > max_chunk_size

\* line 266, on the running length after the formula was added
SizeRule(length, text) ==
    length + Len(text) > max_chunk_size /\ length >= min_chunk_size

\* mutant: the chunk is put in front of the list
EmitFirst(list, chunk) == chunk \o list

\* lines 272-273 and 311-312: 'if chunk: chunks.append(chunk)'
Emit(list, chunk) == list \o chunk

\* one iteration of the for loop of group_elements (lines 223-295); the
\* singleton quantifiers bind each local of the loop body once
LoopBody(element) ==
    LET idx     == Len(elements)
        page    == element.page
        el_type == element.type
        section == element.section_header
    IN
    /\ pc = "loop"
    /\ elements' = Append(elements, element)
    /\ \E text \in {Strip(element.text)} :
       IF is_formula_fragment(text) \/ el_type = "formula"
       THEN /\ formula_buffer' = Append(formula_buffer, text)
            /\ trace' = Append(trace, [routed |-> "formula", page_changed |-> FALSE,
                                       section_changed |-> FALSE, size_rule |-> FALSE,
                                       flushed |-> FALSE, emitted |-> FALSE,
                                       appended |-> FALSE, length |-> current_length,
                                       page |-> current_page, section |-> current_section,
                                       n_before |-> Len(current_buffer),
                                       n_after |-> Len(current_buffer)])
            /\ UNCHANGED <<chunks, current_buffer, current_length, current_page,
                           current_section, last>>
       ELSE \E buffer1 \in {WithFormula(current_buffer, page, idx)},
               length1 \in {WithFormulaLength(current_length)} :
            \E flush \in {/\ \/ PageChanged(page)
                             \/ SectionChanged(section)
                             \/ SizeRule(length1, text)
                          /\ buffer1 # <<>>} :
            \E chunk \in {IF flush THEN _create_chunk(buffer1) ELSE <<>>},
               overlap_text \in {IF flush /\ overlap_size > 0
                                 THEN _get_overlap_text(buffer1) ELSE <<>>} :
            LET buffer2 == IF ~flush THEN buffer1
                           ELSE IF overlap_size > 0
                                THEN <<Item(overlap_text, page, "text", idx, NoSectionKey)>>
                                ELSE <<>>
                length2 == IF ~flush THEN length1
                           ELSE IF overlap_size > 0 THEN Len(overlap_text) ELSE 0
            IN  /\ formula_buffer' = <<>>
                /\ chunks' = Emit(chunks, chunk)
                /\ last' = IF flush
                           THEN [at |-> idx, buffer |-> buffer1, chunk |-> chunk,
                                 n_chunks |-> Len(chunks)]
                           ELSE last
                /\ IF text # <<>>
                   THEN /\ current_buffer' =
                              Append(buffer2, Item(text, page, el_type, idx, section))
                        /\ current_length' = length2 + Len(text)
                        /\ current_page' = page
                        /\ current_section' = section
                   ELSE /\ current_buffer' = buffer2
                        /\ current_length' = length2
                        /\ UNCHANGED <<current_page, current_section>>
                /\ trace' = Append(trace, [routed |-> "main",
                                           page_changed |-> PageChanged(page),
                                           section_changed |-> SectionChanged(section),
                                           size_rule |-> SizeRule(length1, text),
                                           flushed |-> flush,
                                           emitted |-> (chunk # <<>>),
                                           appended |-> (text # <<>>),
                                           length |-> length1,
                                           page |-> current_page,
                                           section |-> current_section,
                                           n_before |-> Len(buffer1),
                                           n_after |-> Len(buffer2)
                                                       + (IF text # <<>> THEN 1 ELSE 0)])
    /\ UNCHANGED <<min_chunk_size, max_chunk_size, overlap_size, pc>>
    /\ UNCHANGED <<expandVars, classifyVars, formulaVars, ingestVars, queryVars>>

\* mutant: the pending fragments are dropped at the end of the stream
EndOfStreamWithoutFormula ==
    /\ pc = "loop"
    /\ pc' = "done"
    /\ chunks' = chunks \o _create_chunk(current_buffer)
    /\ last' = IF current_buffer # <<>>
               THEN [at |-> Len(elements), buffer |-> current_buffer,
                     chunk |-> _create_chunk(current_buffer), n_chunks |-> Len(chunks)]
               ELSE last
    /\ UNCHANGED <<min_chunk_size, max_chunk_size, overlap_size, elements, current_buffer,
                   current_length, current_page, current_section, formula_buffer, trace>>
    /\ UNCHANGED <<expandVars, classifyVars, formulaVars, ingestVars, queryVars>>

\* after the loop (lines 297-316)
EndOfStream ==
    /\ pc = "loop"
    /\ pc' = "done"
    /\ \E reconstructed \in {reconstruct_formula(formula_buffer)} :
       \E buffer1 \in {IF formula_buffer # <<>> /\ reconstructed # <<>>
                          /\ current_buffer # <<>>
                       THEN Append(current_buffer,
                                   Item(reconstructed,
                                        IF current_page = NonePage THEN 0 ELSE current_page,
                                        "formula", Len(elements), NoSectionKey))
                       ELSE current_buffer} :
       \E chunk \in {_create_chunk(buffer1)} :
          /\ current_buffer' = buffer1
          /\ chunks' = Emit(chunks, chunk)
          /\ last' = IF buffer1 # <<>>
                     THEN [at |-> Len(elements), buffer |-> buffer1, chunk |-> chunk,
                           n_chunks |-> Len(chunks)]
                     ELSE last
    /\ UNCHANGED <<min_chunk_size, max_chunk_size, overlap_size, elements,
                   current_length, current_page, current_section, formula_buffer, trace>>
    /\ UNCHANGED <<expandVars, classifyVars, formulaVars, ingestVars, queryVars>>

-----------------------------------------------------------------------------
(* Inputs of group_elements.                                               *)

\* element texts, as the extractor hands them over (not yet stripped)
TxtBlank  == <<" ">>
TxtShort  == <<" ", "a", "1">>
TxtLong   == <<"a", "b", "c", "d", "e", "f", "g">>
TxtSpaced == <<"a", "b", " ", " ", "c", "d">>
TxtFrag   == <<"=">>

SecNone     == <<>>
SecOverview == <<"O", "v", "e", "r", "v", "i", "e", "w">>
SecSafety   == <<"S", "a", "f", "e", "t", "y">>
SecNota     == <<"N", "O", "T", "A", ":">>

\* (min_chunk_size, max_chunk_size, overlap_size); the defaults 300/1000/100
\* scaled to the texts above
Configs == { <<6, 12, 0>>, <<6, 12, 3>> }

Elements(texts, pages, types, sections) ==
    [text : texts, page : pages, type : types, section_header : sections]

\* the general pool: every kind of text, two pages, plain and formula elements
GeneralPool ==
    Elements({TxtBlank, TxtShort, TxtLong, TxtFrag}, {1, 2}, {"text", "formula"},
             {SecOverview})

\* streams that differ in page and text length, with formula-typed elements
PagedPool ==
    Elements({TxtShort, TxtLong}, {1, 2}, {"text"}, {SecOverview})
    \cup Elements({TxtShort}, {1, 2}, {"formula"}, {SecOverview})

\* streams that differ in section header
SectionPool ==
    Elements({TxtShort, TxtSpaced}, {1, 2}, {"text"},
             {SecNone, SecOverview, SecSafety, SecNota})
    \cup Elements({TxtFrag}, {1}, {"text"}, {SecOverview})

\* streams that differ in element type
TypePool ==
    Elements({TxtShort, TxtLong}, {1},
             {"text", "paragraph", "table", "equation", "formula"}, {SecOverview})
    \cup Elements({TxtShort}, {2},
                  {"text", "paragraph", "table", "equation", "formula"}, {SecOverview})
    \cup Elements({TxtFrag}, {1}, {"text"}, {SecOverview})

GroupStart(configs, start) ==
    /\ \E c \in configs :
          /\ min_chunk_size = c[1]
          /\ max_chunk_size = c[2]
          /\ overlap_size = c[3]
    /\ elements = <<>>
    /\ chunks = <<>>
    /\ current_buffer = <<>>
    /\ current_length = 0
    /\ current_page = NonePage
    /\ current_section = NoneValue
    /\ formula_buffer = <<>>
    /\ pc = start
    /\ trace = <<>>
    /\ last = [at |-> -1, buffer |-> <<>>, chunk |-> <<>>, n_chunks |-> 0]

\* no call of group_elements in progress
GroupIdle == GroupStart({<<300, 1000, 100>>}, "idle")

\* no call of expand_context_with_neighbors in progress
ExpandIdle ==
    /\ all_chunks = <<>>
    /\ n_before = 1
    /\ n_after = 1
    /\ target_indices = <<>>
    /\ expanded_indices = {}
    /\ result = <<>>
    /\ xpc = "idle"

\* no ingestion so far: an empty collection and an empty Document table
IngestIdle ==
    /\ vectorstore = [id \in {} |-> <<>>]
    /\ documents = [id \in {} |-> <<>>]
    /\ n_runs = 0
    /\ run = [doc_id |-> "", items |-> <<>>, use_semantic_chunking |-> FALSE,
              n_semantic |-> -1,
              all_chunks |-> <<>>, chunk_ids |-> <<>>, written |-> {}, returned |-> -1]

\* no call of query_documents in progress; the arguments hold their defaults
QueryIdle ==
    /\ collection = <<>>
    /\ top_k = 5
    /\ expand_neighbors = TRUE
    /\ query_before = 1
    /\ query_after = 1
    /\ results = <<>>
    /\ context_chunks = <<>>
    /\ qpc = "idle"

\* no call of FormulaReconstructor on its own in progress
FormulaIdle ==
    /\ frag_text = <<>>
    /\ is_fragment = <<>>
    /\ fragments_in = <<>>
    /\ formula_out = <<>>
    /\ fpc = "idle"

\* no call of detect_block_type or get_chunk_params in progress
ClassifyIdle ==
    /\ blocks = <<>>
    /\ text_in = <<>>
    /\ block_type = "idle"
    /\ category = "idle"
    /\ params = <<>>

Init ==
    GroupStart(Configs, "loop") /\ ExpandIdle /\ ClassifyIdle /\ FormulaIdle /\ IngestIdle /\ QueryIdle

Feed(pool, bound) == Len(elements) < bound /\ \E element \in pool : LoopBody(element)

Next == Feed(GeneralPool, MaxElems) \/ EndOfStream
Spec == Init /\ [][Next]_vars

NextPaged == Feed(PagedPool, MaxPagedElems) \/ EndOfStream
SpecPaged == Init /\ [][NextPaged]_vars

NextSections == Feed(SectionPool, MaxElems) \/ EndOfStream
SpecSections == Init /\ [][NextSections]_vars

NextTypes == Feed(TypePool, MaxElems) \/ EndOfStream
SpecTypes == Init /\ [][NextTypes]_vars

-----------------------------------------------------------------------------
(* Claims about SemanticChunker.group_elements.                            *)

Stripped(i) == Strip(elements[i].text)

\* a finished five-element stream of the shape of C1: every text non-empty
\* and no formula fragment, one section, pages p p q q q with q # p, and the
\* size rule of line 266 true at no step
FiveElementPaged ==
    /\ pc = "done"
    /\ Len(elements) = 5
    /\ \A i \in 1..5 : Stripped(i) # <<>> /\ ~is_formula_fragment(Stripped(i))
    /\ \A i \in 1..5 : elements[i].section_header = elements[1].section_header
    /\ elements[2].page = elements[1].page
    /\ elements[3].page # elements[1].page
    /\ elements[4].page = elements[3].page
    /\ elements[5].page = elements[3].page
    /\ \A i \in 1..5 : ~trace[i].size_rule

FlushedOnlyAtThird == \A i \in 1..5 : trace[i].flushed <=> (i = 3)

TwoChunksAtPageBoundary ==
    /\ FlushedOnlyAtThird
    /\ Len(chunks) = 2
    /\ chunks[1].page = elements[1].page
    /\ chunks[2].page = elements[3].page

NoFormulaTyped ==
    \A i \in 1..Len(elements) : elements[i].type \notin {"formula", "equation"}

C2_MinLengthButLast ==
    pc = "done" =>
        \A i \in 1..(Len(chunks) - 1) : Len(chunks[i].text) >= min_chunk_size

\* the step that consumed element j (1-based) met a major section change on the
\* page of the buffer, with the buffer at or above the minimum
MajorSectionStep(j) ==
    /\ trace[j].routed = "main"
    /\ trace[j].length >= min_chunk_size
    /\ elements[j].page = trace[j].page
    /\ elements[j].section_header \in {SecOverview, SecSafety}
    /\ trace[j].section \notin {NoneValue, SecNone}
    /\ elements[j].section_header # trace[j].section

MinorHeaderStep(j) ==
    /\ trace[j].routed = "main"
    /\ elements[j].section_header = SecNota
    /\ (trace[j].page = NonePage \/ elements[j].page = trace[j].page)
    /\ ~(trace[j].length + Len(Stripped(j)) > max_chunk_size
         /\ trace[j].length >= min_chunk_size)

ShortSingleton ==
    /\ last.at >= 0
    /\ Len(last.buffer) = 1
    /\ Len(Strip(CollapseWs(last.buffer[1].text))) < min_chunk_size

\* C5: turning a buffer of exactly one sub-element whose whitespace-collapsed
\* text is shorter than min_chunk_size into a chunk emits nothing, mid-stream
\* and at end of stream; and a stream of one short element returns no chunk.
C5_ShortSingletonDropped ==
    /\ ShortSingleton => last.chunk = <<>>
    /\ (ShortSingleton /\ (pc = "done" \/ last.at = Len(elements) - 1)) =>
           Len(chunks) = last.n_chunks
    /\ (pc = "done" /\ Len(elements) = 1 /\ Len(Stripped(1)) < min_chunk_size) =>
           chunks = <<>>

C5_Witness ==
    /\ pc = "done"
    /\ Len(elements) = 1
    /\ elements[1].type = "text"
    /\ Stripped(1) = <<"a", "1">>
    /\ ShortSingleton
    /\ last.at = 1
    /\ chunks = <<>>

HasType(buffer, types) == \E i \in 1..Len(buffer) : buffer[i].type \in types

\* C6: the chunk_type of an emitted chunk is 'mixed' when its buffer holds a
\* formula/equation entry and a 'text' entry, 'formula' when it holds a
\* formula/equation entry and no 'text' entry, 'table' when it holds a table
\* entry and no formula/equation entry, and 'text' otherwise.
C6_ChunkType ==
    last.chunk # <<>> =>
        LET b == last.buffer
            f == HasType(b, {"formula", "equation"})
        IN  last.chunk[1].chunk_type =
                IF f /\ HasType(b, {"text"}) THEN "mixed"
                ELSE IF f THEN "formula"
                ELSE IF HasType(b, {"table"}) THEN "table"
                ELSE "text"

C6_Witness ==
    /\ last.chunk # <<>>
    /\ HasType(last.buffer, {"table"})
    /\ HasType(last.buffer, {"equation"})
    /\ ~HasType(last.buffer, {"text"})
    /\ last.chunk[1].chunk_type = "formula"
    /\ chunks[Len(chunks)] = last.chunk[1]

-----------------------------------------------------------------------------
(* expand_context_with_neighbors                                           *)

\* the chunk at position i (0-based) of the list handed to the function
ChunkAt(i) == [position |-> i]

\* Python's list[i]: a negative index counts from the end
IndexInRange(i, n) == -n <= i /\ i < n
ListItem(list, i) == IF i >= 0 THEN list[i + 1] ELSE list[Len(list) + i + 1]

\* sorted(set)
RECURSIVE Sorted(_)
Sorted(S) ==
    IF S = {} THEN <<>>
    ELSE LET m == CHOOSE x \in S : \A y \in S : x <= y
         IN  <<m>> \o Sorted(S \ {m})

\* mutant: n_after is used for the preceding neighbours too
NeighborsSwapped(idx) ==
    {idx} \cup {idx - i : i \in {k \in 1..n_after : idx - k >= 0}}
          \cup {idx + i : i \in {k \in 1..n_after : idx + k < Len(all_chunks)}}

\* mutant: the following neighbours are clipped one position too late
NeighborsOffByOne(idx) ==
    {idx} \cup {idx - i : i \in {k \in 1..n_before : idx - k >= 0}}
          \cup {idx + i : i \in {k \in 1..n_after : idx + k <= Len(all_chunks)}}

\* what one iteration of the loop adds (lines 425-436); range(1, n + 1) is 1..n
Neighbors(idx) ==
    {idx} \cup {idx - i : i \in {k \in 1..n_before : idx - k >= 0}}
          \cup {idx + i : i \in {k \in 1..n_after : idx + k < Len(all_chunks)}}

\* one iteration of `for idx in target_indices`
ExpandTarget(idx) ==
    /\ xpc = "loop"
    /\ target_indices' = Append(target_indices, idx)
    /\ expanded_indices' = expanded_indices \cup Neighbors(idx)
    /\ UNCHANGED <<all_chunks, n_before, n_after, result, xpc>>
    /\ UNCHANGED <<groupVars, classifyVars, formulaVars, ingestVars, queryVars>>

\* lines 439-443: the list comprehension raises IndexError on a position
\* outside the list
ExpandReturn ==
    /\ xpc = "loop"
    /\ IF \A i \in expanded_indices : IndexInRange(i, Len(all_chunks))
       THEN /\ result' = LET order == Sorted(expanded_indices)
                         IN  [k \in 1..Len(order) |-> ListItem(all_chunks, order[k])]
            /\ xpc' = "done"
       ELSE /\ result' = <<>>
            /\ xpc' = "IndexError"
    /\ UNCHANGED <<all_chunks, n_before, n_after, target_indices, expanded_indices>>
    /\ UNCHANGED <<groupVars, classifyVars, formulaVars, ingestVars, queryVars>>

InitExpand ==
    /\ GroupIdle
    /\ ClassifyIdle
    /\ FormulaIdle
    /\ IngestIdle /\ QueryIdle
    /\ \E n \in 0..MaxChunks : all_chunks = [i \in 1..n |-> ChunkAt(i - 1)]
    /\ n_before \in -1..MaxNeighbors
    /\ n_after \in -1..MaxNeighbors
    /\ target_indices = <<>>
    /\ expanded_indices = {}
    /\ result = <<>>
    /\ xpc = "loop"

NextExpand ==
    \/ /\ Len(target_indices) < MaxTargets
       /\ \E idx \in -1..Len(all_chunks) : ExpandTarget(idx)
    \/ ExpandReturn

SpecExpand == InitExpand /\ [][NextExpand]_vars

-----------------------------------------------------------------------------
(* Claims about expand_context_with_neighbors.                             *)

Returned == xpc \in {"done", "IndexError"}
Targets == {target_indices[k] : k \in 1..Len(target_indices)}
TargetsInRange == \A t \in Targets : 0 <= t /\ t < Len(all_chunks)
ResultPositions == [k \in 1..Len(result) |-> result[k].position]
Max(a, b) == IF a >= b THEN a ELSE b
Min(a, b) == IF a <= b THEN a ELSE b

\* the union over the targets t of [max(0, t - before), min(n - 1, t + after)]
ClippedWindows ==
    UNION { Max(0, t - n_before) .. Min(Len(all_chunks) - 1, t + n_after) : t \in Targets }

\* C7: for in-range targets and before, after >= 0 the function returns the
\* chunks at the positions of the clipped windows' union, each once, in
\* strictly ascending position; for ten chunks, target 4, before 1 and after 2
\* these are the positions 3, 4, 5, 6.
C7_ExpandWindow ==
    (Returned /\ TargetsInRange /\ n_before >= 0 /\ n_after >= 0) =>
        /\ xpc = "done"
        /\ {ResultPositions[k] : k \in 1..Len(result)} = ClippedWindows
        /\ \A k \in 1..(Len(result) - 1) : ResultPositions[k] < ResultPositions[k + 1]
        /\ \A k \in 1..Len(result) : result[k] = all_chunks[ResultPositions[k] + 1]
        /\ (Len(all_chunks) = 10 /\ target_indices = <<4>> /\ n_before = 1 /\ n_after = 2)
               => ResultPositions = <<3, 4, 5, 6>>

C7_Witness ==
    /\ xpc = "done"
    /\ Len(all_chunks) = 10
    /\ target_indices = <<4>>
    /\ n_before = 1
    /\ n_after = 2
    /\ ResultPositions = <<3, 4, 5, 6>>

\* C8: with no target the function returns the empty list, whatever the chunk
\* list and n_before/n_after; with in-range targets it returns without an
\* error, keeps every target and leaves out the neighbours below position 0
\* and above position n - 1.
C8_ExpandNeverFails ==
    /\ (Returned /\ target_indices = <<>>) => (xpc = "done" /\ result = <<>>)
    /\ (Returned /\ TargetsInRange) =>
           /\ xpc = "done"
           /\ \A k \in 1..Len(result) :
                  0 <= ResultPositions[k] /\ ResultPositions[k] < Len(all_chunks)
           /\ \A t \in Targets : \E k \in 1..Len(result) : ResultPositions[k] = t

C8_Witness ==
    /\ xpc = "done"
    /\ Len(all_chunks) = 10
    /\ target_indices = <<9, 0>>
    /\ n_before = 2
    /\ n_after = 2
    /\ ResultPositions = <<0, 1, 2, 7, 8, 9>>

-----------------------------------------------------------------------------
(* detect_block_type                                                       *)
(* Further code points with a name: "bullet" U+2022, "div" U+00F7,         *)
(* "plusminus" U+00B1, "sqrt" U+221A, "sum" U+2211, "Sigma" U+03A3.        *)

\* str.splitlines(); of the line boundaries only "\n" occurs in the texts
RECURSIVE SplitLinesFrom(_, _)
SplitLinesFrom(s, line) ==
    IF s = <<>> THEN (IF line = <<>> THEN <<>> ELSE <<line>>)
    ELSE IF Head(s) = "\n" THEN <<line>> \o SplitLinesFrom(Tail(s), <<>>)
    ELSE SplitLinesFrom(Tail(s), Append(line, Head(s)))

splitlines(s) == SplitLinesFrom(s, <<>>)

\* str.split(): the maximal runs of non-whitespace
RECURSIVE SplitFrom(_, _)
SplitFrom(s, word) ==
    IF s = <<>> THEN (IF word = <<>> THEN <<>> ELSE <<word>>)
    ELSE IF Head(s) \in Whitespace
         THEN (IF word = <<>> THEN <<>> ELSE <<word>>) \o SplitFrom(Tail(s), <<>>)
         ELSE SplitFrom(Tail(s), Append(word, Head(s)))

split(s) == SplitFrom(s, <<>>)

\* `w in s`
Contains(s, w) ==
    \E i \in 1..(Len(s) - Len(w) + 1) : SubSeq(s, i, i + Len(w) - 1) = w

\* re.search(r'\b(w1|w2|...)\b', s) for words made of word characters
SearchWord(s, words) ==
    \E w \in words : \E i \in 1..(Len(s) - Len(w) + 1) :
        /\ SubSeq(s, i, i + Len(w) - 1) = w
        /\ (i = 1 \/ s[i - 1] \notin WordChars)
        /\ (i + Len(w) - 1 = Len(s) \/ s[i + Len(w)] \notin WordChars)

\* the number of leading decimal digits (what \d+ consumes)
RECURSIVE DigitRun(_)
DigitRun(s) == IF s # <<>> /\ Head(s) \in DecimalChars THEN 1 + DigitRun(Tail(s)) ELSE 0

HasDigit(s) == \E i \in 1..Len(s) : s[i] \in DecimalChars

\* warning|caution|aten[çc][aã]o|aviso|advert[êe]ncia
HazardWords ==
    { <<"w","a","r","n","i","n","g">>, <<"c","a","u","t","i","o","n">>,
      <<"a","t","e","n","c_cedilla","a_tilde","o">>, <<"a","t","e","n","c_cedilla","a","o">>,
      <<"a","t","e","n","c","a_tilde","o">>, <<"a","t","e","n","c","a","o">>,
      <<"a","v","i","s","o">>,
      <<"a","d","v","e","r","t","e_circ","n","c","i","a">>,
      <<"a","d","v","e","r","t","e","n","c","i","a">> }

\* mutant: the hazard words are searched in the text as written
WarningRuleCased(t) == SearchWord(t, HazardWords)

\* rule 1 (lines 35, 39)
WarningRule(t) == SearchWord(ToLower(t), HazardWords)

\* rule 2 (line 43)
ObviousTableRule(t) ==
    \/ Contains(ToLower(t), <<"t","a","b","e","l","a">>)
    \/ Contains(ToLower(t), <<"t","a","b","l","e">>)
    \/ Contains(ToLower(t), <<"t","a","b","l","a">>)
    \/ Contains(t, <<"|">>)

\* re.match(r'^(\d+[\.\)]\s+)', line)
NumberedStep(line) ==
    LET d == DigitRun(line)
    IN  /\ d >= 1
        /\ Len(line) >= d + 2
        /\ line[d + 1] \in {".", ")"}
        /\ line[d + 2] \in Whitespace

\* re.match(r'^(\d+[\.\)]\s+|[-*•]\s+)', line)
StepLine(line) ==
    \/ NumberedStep(line)
    \/ Len(line) >= 2 /\ line[1] \in {"-", "*", "bullet"} /\ line[2] \in Whitespace

Count(seq, P(_)) == Cardinality({i \in 1..Len(seq) : P(seq[i])})

\* lines 36: the stripped non-empty lines
Lines(t) == SelectNonEmpty(StripAll(splitlines(t)))

\* mutant: a procedure needs three steps
ProcedureRuleThree(t) == Count(Lines(t), StepLine) >= 3

\* rule 3 (lines 47-53)
ProcedureRule(t) == Count(Lines(t), StepLine) >= 2

\* lines 58-73
NumericLike(line) ==
    /\ ~NumberedStep(line)
    /\ \/ line[1] \in DecimalChars
       \/ Count(split(line), HasDigit) >= 2
       \/ Contains(ToLower(line), <<"h","r","s">>)

\* rule 4 (line 75)
NumericTableRule(t) == Len(Lines(t)) >= 3 /\ Count(Lines(t), NumericLike) >= 2

\* rule 5 (lines 80-85)
FormulaRule(t) ==
    \/ /\ \E i \in 1..Len(t) :
             t[i] \in {"=", "<", ">", "times", "div", "plusminus", "/", "sqrt", "sum", "Sigma"}
       /\ HasDigit(t)
    \/ SearchWord(ToLower(t), { <<"c","o","s">>, <<"s","e","n">>, <<"s","i","n">>,
                                <<"t","a","n">>, <<"l","o","g">>, <<"l","n">> })

\* what (\.\d+)+\s matches at the head of s
RECURSIVE DottedNumbers(_, _)
DottedNumbers(s, seen) ==
    IF s # <<>> /\ Head(s) = "." /\ DigitRun(Tail(s)) >= 1
    THEN DottedNumbers(Drop(Tail(s), DigitRun(Tail(s))), TRUE)
    ELSE seen /\ s # <<>> /\ Head(s) \in Whitespace

\* rule 6 (line 89): re.match(r"^\d+(\.\d+)+\s", t)
ConceptualRule(t) == DigitRun(t) >= 1 /\ DottedNumbers(Drop(t, DigitRun(t)), FALSE)

detect_block_type(text) ==
    LET t == Strip(text)
    IN  IF WarningRule(t) THEN "warning"
        ELSE IF ObviousTableRule(t) THEN "table"
        ELSE IF ProcedureRule(t) THEN "procedure"
        ELSE IF NumericTableRule(t) THEN "table"
        ELSE IF FormulaRule(t) THEN "formula"
        ELSE IF ConceptualRule(t) THEN "conceptual"
        ELSE "narrative"

\* the pieces the classified texts are made of
BlkNumbered == <<"1", ".", " ", "x", "\n">>
BlkDashed   == <<"-", " ", "y", "\n">>
BlkBare     == <<"2", ".", " ", "\n">>
BlkCaution  == <<"C", "A", "U", "T", "I", "O", "N">>
BlkAtencao  == <<"A", "t", "e", "n", "c_cedilla", "a_tilde", "o">>
BlkWarnings == <<"w", "a", "r", "n", "i", "n", "g", "s">>
BlkPipe     == <<"|">>
BlkStable   == <<"s", "t", "a", "b", "l", "e">>
BlkSpace    == <<" ">>
BlkEquation == <<"a", "=", "5">>
BlkWord     == <<"g", "o">>
BlkNumbers  == <<"7", " ", "8", "\n">>
BlkHeading  == <<"1", ".", "2", " ">>

BlockPool == {BlkNumbered, BlkDashed, BlkBare, BlkCaution, BlkAtencao, BlkWarnings,
              BlkPipe, BlkStable, BlkSpace, BlkEquation, BlkWord, BlkNumbers, BlkHeading}

RECURSIVE Concat(_)
Concat(parts) == IF parts = <<>> THEN <<>> ELSE Head(parts) \o Concat(Tail(parts))

\* the call detect_block_type(text_in)
Classify ==
    /\ block_type = "pending"
    /\ block_type' = detect_block_type(text_in)
    /\ UNCHANGED <<blocks, text_in, category, params>>
    /\ UNCHANGED <<groupVars, expandVars, formulaVars, ingestVars, queryVars>>

\* a text made of at most bound pieces, before detect_block_type is called
ClassifyStart(bound) ==
    /\ GroupIdle
    /\ ExpandIdle
    /\ FormulaIdle
    /\ IngestIdle /\ QueryIdle
    /\ blocks \in UNION {[1..k -> BlockPool] : k \in 0..bound}
    /\ text_in = Concat(blocks)
    /\ block_type = "pending"
    /\ category = "pending"
    /\ params = <<>>

InitClassify == ClassifyStart(MaxBlocks)

NextClassify == Classify

SpecClassify == InitClassify /\ [][NextClassify]_vars

-----------------------------------------------------------------------------
(* Claims about detect_block_type.                                         *)

FirstChar(b) == b[1]
LastChar(b) == b[Len(b)]

\* piece k is a hazard word standing as a whole word: no word character
\* touches it on either side
WholeHazardAt(k) ==
    /\ blocks[k] \in {BlkCaution, BlkAtencao}
    /\ (k = 1 \/ LastChar(blocks[k - 1]) \notin WordChars)
    /\ (k = Len(blocks) \/ FirstChar(blocks[k + 1]) \notin WordChars)

WholeHazard == \E k \in 1..Len(blocks) : WholeHazardAt(k)

HasBlock(B) == \E k \in 1..Len(blocks) : blocks[k] \in B

\* C9: a text that holds a hazard word as a whole word, in any letter case, is
\* classified 'warning', whatever else it holds (a pipe, a table keyword, step
\* lines, digits, math symbols).
C9_HazardIsWarning ==
    (block_type # "pending" /\ WholeHazard) => block_type = "warning"

C9_Witness ==
    /\ block_type = "warning"
    /\ blocks = <<BlkPipe, BlkCaution, BlkSpace>>

\* the number of lines that are a step: a step piece that begins its line
StepLines ==
    Cardinality({k \in 1..Len(blocks) :
                    /\ blocks[k] \in {BlkNumbered, BlkDashed}
                    /\ (k = 1 \/ LastChar(blocks[k - 1]) = "\n")})

\* C10 as stated: a block with two or more step lines is classified
\* 'procedure', and 'warning' when a hazard word is present too.
C10_AsStated ==
    (block_type # "pending" /\ StepLines >= 2) =>
        /\ WholeHazard => block_type = "warning"
        /\ ~HasBlock({BlkCaution, BlkAtencao, BlkWarnings}) => block_type = "procedure"

\* C10, amended: a block with two or more lines that, once trimmed, start
\* with a step marker followed by whitespace is classified 'warning' when it
\* holds a hazard word as a whole word, else 'table' when it holds a table
\* keyword or a pipe, else 'procedure'.
C10_ProcedureAfterWarningAndTable ==
    (block_type # "pending" /\ StepLines >= 2) =>
        block_type = IF WholeHazard THEN "warning"
                     ELSE IF HasBlock({BlkPipe, BlkStable}) THEN "table"
                     ELSE "procedure"

C10_Witness ==
    /\ block_type = "procedure"
    /\ blocks = <<BlkNumbered, BlkDashed, BlkWarnings>>

(***************************************************************************)
(* get_chunk_params (adaptive_chunker.py, lines 96-142)                    *)
(***************************************************************************)

\* params_map (lines 109-140); a separator is kept as one token
params_map ==
    [table      |-> [chunk_size |-> 300, chunk_overlap |-> 50,
                     separators |-> <<"\n", "|", ";", ",">>],
     formula    |-> [chunk_size |-> 1200, chunk_overlap |-> 150,
                     separators |-> <<"\n\n", "\n", ".", ";">>],
     conceptual |-> [chunk_size |-> 1200, chunk_overlap |-> 150,
                     separators |-> <<"\n\n", "\n", ".", ";">>],
     procedure  |-> [chunk_size |-> 400, chunk_overlap |-> 80,
                     separators |-> <<"\n", "\n\n", ".", ";">>],
     warning    |-> [chunk_size |-> 250, chunk_overlap |-> 20,
                     separators |-> <<"WARNING:", "CAUTION:", "ATENCAO:", "AVISO:", "\n">>],
     narrative  |-> [chunk_size |-> 800, chunk_overlap |-> 100,
                     separators |-> <<"\n\n", "\n", ".", ";", " ">>]]

\* the outcome of a call: <<dict>> when it returns, <<>> when it raises
\* mutant: params_map[key], a KeyError for a key that is not there
get_chunk_params_strict(key) ==
    IF key \in DOMAIN params_map THEN <<params_map[key]>> ELSE <<>>

\* line 142: params_map.get(block_type, params_map["narrative"])
get_chunk_params(key) ==
    IF key \in DOMAIN params_map
    THEN <<params_map[key]>>
    ELSE <<params_map["narrative"]>>

\* category strings a caller may pass: the six keys, the chunk types of
\* SemanticChunker, a key in another letter case, the empty string
CategoryPool ==
    {"warning", "table", "procedure", "formula", "conceptual", "narrative",
     "text", "mixed", "Table", "unknown", ""}

\* params = get_chunk_params(c); split_text_dynamic (line 159) passes the
\* detected block_type
GetChunkParams ==
    /\ block_type \notin {"pending", "idle"}
    /\ category = "pending"
    /\ \E c \in {block_type} \cup CategoryPool :
          /\ category' = c
          /\ params' = get_chunk_params(c)
    /\ UNCHANGED <<blocks, text_in, block_type>>
    /\ UNCHANGED <<groupVars, expandVars, formulaVars, ingestVars, queryVars>>

InitParams == ClassifyStart(MaxPolicyBlocks)

NextParams == Classify \/ GetChunkParams

SpecParams == InitParams /\ [][NextParams]_vars

SixCategories == {"warning", "table", "procedure", "formula", "conceptual", "narrative"}

\* none of the six rules of detect_block_type matches the trimmed text
NoRuleMatches ==
    LET t == Strip(text_in)
    IN  /\ ~WarningRule(t) /\ ~ObviousTableRule(t) /\ ~ProcedureRule(t)
        /\ ~NumericTableRule(t) /\ ~FormulaRule(t) /\ ~ConceptualRule(t)

\* C11: detect_block_type returns one of the six categories for every text,
\* the empty one included, and 'narrative' when no rule matches; and
\* get_chunk_params returns a configuration for every category string, the
\* one of its key for the six keys and the narrative one (800 / 100) for any
\* other string.
C11_ClassifyAndPolicyTotal ==
    /\ block_type # "pending" =>
          /\ block_type \in SixCategories
          /\ NoRuleMatches => block_type = "narrative"
    /\ category # "pending" =>
          /\ Len(params) = 1
          /\ category \in SixCategories => params[1] = params_map[category]
          /\ category \notin SixCategories =>
                /\ params[1] = params_map["narrative"]
                /\ params[1].chunk_size = 800
                /\ params[1].chunk_overlap = 100

C11_Witness ==
    /\ text_in = <<>>
    /\ block_type = "narrative"
    /\ category = "unknown"
    /\ params = <<params_map["narrative"]>>

(***************************************************************************)
(* FormulaReconstructor called on its own (chunking_strategy.py, 62-135)   *)
(***************************************************************************)

\* every str of at most n code points of the alphabet
Strings(alphabet, n) == UNION {[1..k -> alphabet] : k \in 0..n}

FragmentChars == {"=", "sup2", "4", "g", " ", ".", "-"}
TxtFrame == <<"F", "r", "a", "m", "e">>
Txt42kg == <<"4", "2", "k", "g">>

\* the call is_formula_fragment(frag_text)
IsFormulaFragment ==
    /\ fpc = "call"
    /\ is_fragment = <<>>
    /\ is_fragment' = <<is_formula_fragment(frag_text)>>
    /\ fpc' = "done"
    /\ UNCHANGED <<frag_text, fragments_in, formula_out>>
    /\ UNCHANGED <<groupVars, expandVars, classifyVars, ingestVars, queryVars>>

InitFragment ==
    /\ GroupIdle
    /\ ExpandIdle
    /\ ClassifyIdle
    /\ IngestIdle /\ QueryIdle
    /\ frag_text \in Strings(FragmentChars, MaxFragmentLen) \cup {TxtFrame, Txt42kg}
    /\ is_fragment = <<>>
    /\ fragments_in = <<>>
    /\ formula_out = <<>>
    /\ fpc = "call"

NextFragment == IsFormulaFragment

SpecFragment == InitFragment /\ [][NextFragment]_vars

Trimmed == Strip(frag_text)

MathSymbols == {"=", "(", ")", "sup2", "sup3", "+", "-", "times", "/"}

HasMathSymbol == \E i \in 1..Len(Trimmed) : Trimmed[i] \in MathSymbols

PurelyNumeric == Trimmed # <<>> /\ \A i \in 1..Len(Trimmed) : Trimmed[i] \in DecimalChars

PurelyAlphabetic == Trimmed # <<>> /\ \A i \in 1..Len(Trimmed) : Trimmed[i] \in AlphaChars

BareGlyph == Len(Trimmed) = 1 /\ Trimmed[1] \in {"=", "+", "-", "times", "/", "(", ")", "sup2", "sup3"}

\* C12: is_formula_fragment(text) is true exactly when the trimmed text has
\* at most 3 characters and holds a math symbol, or has at most 2 characters
\* and is purely numeric or purely alphabetic, or is one bare glyph; it is
\* true for "=", false for "Frame", "42kg" and the empty string.
C12_FragmentExactly ==
    is_fragment # <<>> =>
        /\ is_fragment[1] <=> \/ Len(Trimmed) <= 3 /\ HasMathSymbol
                              \/ Len(Trimmed) <= 2 /\ (PurelyNumeric \/ PurelyAlphabetic)
                              \/ BareGlyph
        /\ frag_text = <<"=">> => is_fragment[1]
        /\ frag_text \in {TxtFrame, Txt42kg, <<>>} => ~is_fragment[1]

C12_Witness ==
    /\ frag_text = <<" ", "=", "4", " ">>
    /\ is_fragment = <<TRUE>>

\* the fragments reconstruct_formula is called with
FrU == <<"U">>
Fr2 == <<"2">>
Fr3 == <<"3">>
FrP == <<"P">>
FrEquals == <<"=">>
FrUnit == <<"(", "W", ")">>
FrEmpty == <<>>
FrBlank == <<" ", "\t">>
FrPadded == <<" ", "=", "\n">>
FrDouble == <<"=", "=">>
FrRatio == <<"a", "/", "b">>
FrDotted == <<"x", ".", "y">>
FrTwoX == <<"2", "x">>

FragmentPool == {FrU, Fr2, Fr3, FrP, FrEquals, FrUnit, FrEmpty, FrBlank, FrPadded,
                 FrDouble, FrRatio, FrDotted, FrTwoX}

\* the fragments of the docstring example of the class, in reading order
PowerExample == <<FrU, Fr2, FrP, FrEquals, FrUnit>>

\* the call reconstruct_formula(fragments_in)
ReconstructFormula ==
    /\ fpc = "call"
    /\ formula_out = <<>>
    /\ formula_out' = <<reconstruct_formula(fragments_in)>>
    /\ fpc' = "done"
    /\ UNCHANGED <<frag_text, is_fragment, fragments_in>>
    /\ UNCHANGED <<groupVars, expandVars, classifyVars, ingestVars, queryVars>>

InitReconstruct ==
    /\ GroupIdle
    /\ ExpandIdle
    /\ ClassifyIdle
    /\ IngestIdle /\ QueryIdle
    /\ frag_text = <<>>
    /\ is_fragment = <<>>
    /\ fragments_in \in Strings(FragmentPool, MaxFragments) \cup {PowerExample}
    /\ formula_out = <<>>
    /\ fpc = "call"

NextReconstruct == ReconstructFormula

SpecReconstruct == InitReconstruct /\ [][NextReconstruct]_vars

\* the trimmed fragments that are not empty, in the order given, with one
\* space between neighbours
JoinedFragments == Join(<<" ">>, SelectNonEmpty(StripAll(fragments_in)))

NoOuterWhitespace(r) == r = <<>> \/ (r[1] \notin Whitespace /\ r[Len(r)] \notin Whitespace)

NoWhitespaceRun(r) == \A i \in 1..(Len(r) - 1) : ~(r[i] \in Whitespace /\ r[i + 1] \in Whitespace)

EqualsPadded(r) ==
    \A i \in 2..(Len(r) - 1) : r[i] = "=" => (r[i - 1] = " " /\ r[i + 1] = " ")

NonDecreasing(ids) == \A i \in 1..(Len(ids) - 1) : ids[i] <= ids[i + 1]

\* C14: when group_elements has returned, every entry of every chunk's
\* element_ids is the index, in 0..n-1, of one of the n input elements, and
\* the entries of a chunk are in non-decreasing order.
C14_ElementIdsAreIndices ==
    pc = "done" =>
        \A c \in 1..Len(chunks) :
            /\ \A i \in 1..Len(chunks[c].element_ids) :
                   chunks[c].element_ids[i] \in 0..(Len(elements) - 1)
            /\ NonDecreasing(chunks[c].element_ids)

\* group_elements as a function of its whole argument, for comparing the
\* results of two streams: the locals of lines 216-221 as a record ...
GroupLocals ==
    [chunks |-> <<>>, buffer |-> <<>>, length |-> 0, page |-> NonePage,
     section |-> NoneValue, formula |-> <<>>]

\* ... one iteration of the loop (lines 223-295) ...
GroupStep(st, element, idx) ==
    LET text    == Strip(element.text)
        page    == element.page
        section == element.section_header
    IN  IF is_formula_fragment(text) \/ element.type = "formula"
        THEN [st EXCEPT !.formula = Append(@, text)]
        ELSE
        LET reconstructed == reconstruct_formula(st.formula)
            joined  == st.formula # <<>> /\ reconstructed # <<>>
            buffer1 == IF joined
                       THEN Append(st.buffer,
                                   Item(reconstructed, page, "formula", idx, NoSectionKey))
                       ELSE st.buffer
            length1 == IF st.formula # <<>> THEN st.length + Len(reconstructed)
                       ELSE st.length
            section_changed == /\ Truthy(st.section)
                               /\ Truthy(section)
                               /\ section # st.section
                               /\ ~_is_minor_header(section)
            should_split == \/ st.page # NonePage /\ page # st.page
                            \/ section_changed
                            \/ SizeRule(length1, text)
            flush   == should_split /\ buffer1 # <<>>
            overlap_text == _get_overlap_text(buffer1)
            buffer2 == IF ~flush THEN buffer1
                       ELSE IF overlap_size > 0
                            THEN <<Item(overlap_text, page, "text", idx, NoSectionKey)>>
                            ELSE <<>>
            length2 == IF ~flush THEN length1
                       ELSE IF overlap_size > 0 THEN Len(overlap_text) ELSE 0
        IN  [chunks  |-> IF flush THEN st.chunks \o _create_chunk(buffer1) ELSE st.chunks,
             buffer  |-> IF text # <<>>
                         THEN Append(buffer2, Item(text, page, element.type, idx, section))
                         ELSE buffer2,
             length  |-> IF text # <<>> THEN length2 + Len(text) ELSE length2,
             page    |-> IF text # <<>> THEN page ELSE st.page,
             section |-> IF text # <<>> THEN section ELSE st.section,
             formula |-> <<>>]

RECURSIVE GroupLoop(_, _, _)
GroupLoop(st, elems, k) ==
    IF k > Len(elems) THEN st
    ELSE GroupLoop(GroupStep(st, elems[k], k - 1), elems, k + 1)

\* ... and the whole call (lines 213-316)
group_elements(elems) ==
    LET st == GroupLoop(GroupLocals, elems, 1)
        reconstructed == reconstruct_formula(st.formula)
        buffer1 == IF st.formula # <<>> /\ reconstructed # <<>> /\ st.buffer # <<>>
                   THEN Append(st.buffer,
                               Item(reconstructed,
                                    IF st.page = NonePage THEN 0 ELSE st.page,
                                    "formula", Len(elems), NoSectionKey))
                   ELSE st.buffer
    IN  st.chunks \o _create_chunk(buffer1)

\* the function and the step-by-step run give the same list
GroupAgrees == pc = "done" => chunks = group_elements(elements)

\* the element types named by the extractor's label set
RecognisedTypes ==
    {"text", "paragraph", "list_item", "section_header", "title", "table",
     "figure", "picture", "formula", "equation"}

\* streams with elements of a type outside the label set
ElementTypePool ==
    Elements({TxtShort, TxtLong}, {1}, {"text", "caption", "equation", "table"},
             {SecOverview})
    \cup Elements({TxtShort}, {2}, {"caption"}, {SecOverview})
    \cup Elements({TxtFrag}, {1}, {"text"}, {SecOverview})

NextCategories == Feed(ElementTypePool, MaxElems) \/ EndOfStream
SpecCategories == Init /\ [][NextCategories]_vars

\* the stream with element k retyped 'text'
Retyped(k) == [elements EXCEPT ![k].type = "text"]

SameChunks(a, b) ==
    /\ Len(a) = Len(b)
    /\ \A i \in 1..Len(a) :
          /\ a[i].text = b[i].text
          /\ a[i].page = b[i].page
          /\ a[i].chunk_type = b[i].chunk_type

\* C15: when group_elements has returned, retyping as 'text' any one element
\* whose type is outside the recognised set gives a stream with the same
\* number of chunks, each with the same text, page and chunk_type.
C15_UnrecognisedIsText ==
    pc = "done" =>
        \A k \in 1..Len(elements) :
            elements[k].type \notin RecognisedTypes =>
                SameChunks(chunks, group_elements(Retyped(k)))

(***************************************************************************)
(* process_document_with_docling (ingest.py, lines 366-605)                *)
(***************************************************************************)

\* SemanticChunker(min_chunk_size=300, max_chunk_size=1000, overlap_size=100)
\* (lines 438-442), scaled to the texts of the model as in Configs
IngestChunker == <<6, 12, 3>>

\* an item of docling_doc.iterate_items(): element.text, element.prov[0].page_no,
\* element.label, and for a table the number of rows of element.data
DocItem(text, page, label, rows) ==
    [text |-> text, page |-> page, label |-> label, rows |-> rows]

\* the documents ingested: no item; one short paragraph; one formula item;
\* two and three long paragraphs on pages of their own; a heading, a
\* paragraph and a table of two rows
DocEmpty   == <<>>
DocShort   == <<DocItem(TxtShort, 1, "text", 0)>>
DocFormula == <<DocItem(TxtShort, 1, "formula", 0)>>
DocTwo     == <<DocItem(TxtLong, 1, "text", 0), DocItem(TxtLong, 2, "paragraph", 0)>>
DocThree   == <<DocItem(TxtLong, 1, "text", 0), DocItem(TxtLong, 2, "text", 0),
                DocItem(TxtLong, 3, "list_item", 0)>>
DocTable   == <<DocItem(SecSafety, 1, "section_header", 0),
                DocItem(TxtLong, 1, "text", 0), DocItem(TxtShort, 1, "table", 2)>>

DocPool == {DocEmpty, DocShort, DocFormula, DocTwo, DocThree, DocTable}

DocIds == {"doc-a", "doc-b"}

\* lines 416-434: raw_elements, the section header being the text of the
\* last section_header item seen
RECURSIVE RawElements(_, _)
RawElements(items, last_section_header) ==
    IF items = <<>> THEN <<>>
    ELSE LET element == Head(items)
             header  == IF element.label = "section_header"
                        THEN Strip(element.text) ELSE last_section_header
         IN  <<[text |-> element.text, page |-> element.page, type |-> element.label,
                section_header |-> header]>>
             \o RawElements(Tail(items), header)

\* f"{doc_id}_chunk_{idx}"
ChunkIdOf(doc_id, idx) == <<doc_id, "_chunk_", idx>>

\* a chunk dict: its content and the chunk_id of its metadata, <<>> when the
\* metadata has no 'chunk_id' key
ChunkDict(content, chunk_id) == [content |-> content, chunk_id |-> chunk_id]

\* lines 452-483: one chunk dict per semantic chunk, with its chunk_id
RECURSIVE SemanticChunkDicts(_, _, _)
SemanticChunkDicts(doc_id, semantic_chunks, idx) ==
    IF semantic_chunks = <<>> THEN <<>>
    ELSE <<ChunkDict(Head(semantic_chunks).text, <<ChunkIdOf(doc_id, idx)>>)>>
         \o SemanticChunkDicts(doc_id, Tail(semantic_chunks), idx + 1)

\* a row chunk of process_table_element (lines 255-275)
RECURSIVE RowChunks(_, _)
RowChunks(title, n) ==
    IF n = 0 THEN <<>> ELSE Append(RowChunks(title, n - 1), ChunkDict(title, <<>>))

\* lines 489-535: element by element; a figure without an extractable image
\* gives nothing, a table one chunk per row, a text-like item with text the
\* chunks of split_text_with_metadata (one, the trimmed text, the text being
\* shorter than every chunk_size of get_chunk_params); none of them carries
\* a chunk_id
RECURSIVE ElementChunkDicts(_)
ElementChunkDicts(items) ==
    IF items = <<>> THEN <<>>
    ELSE LET element == Head(items)
         IN  (IF element.label \in {"figure", "picture"} THEN <<>>
              ELSE IF element.label = "table" THEN RowChunks(element.text, element.rows)
              ELSE IF element.label \in {"text", "paragraph", "list_item",
                                         "section_header", "title"}
                   THEN (IF Strip(element.text) = <<>> THEN <<>>
                         ELSE <<ChunkDict(Strip(element.text), <<>>)>>)
              ELSE <<>>)
             \o ElementChunkDicts(Tail(items))

\* mutant: every missing chunk_id gets index 0
EnsureChunkIdsFirst(doc_id, all) ==
    [k \in 1..Len(all) |->
        IF all[k].chunk_id = <<>>
        THEN [all[k] EXCEPT !.chunk_id = <<ChunkIdOf(doc_id, 0)>>]
        ELSE all[k]]

\* lines 553-555: a chunk without chunk_id gets its position in all_chunks
EnsureChunkIds(doc_id, all) ==
    [k \in 1..Len(all) |->
        IF all[k].chunk_id = <<>>
        THEN [all[k] EXCEPT !.chunk_id = <<ChunkIdOf(doc_id, k - 1)>>]
        ELSE all[k]]

\* mutant: the semantic mode is never left
UseSemanticChunksAlways(use_semantic_chunking, semantic_chunks) == use_semantic_chunking

\* line 452: if use_semantic_chunking and semantic_chunks
UseSemanticChunks(use_semantic_chunking, semantic_chunks) ==
    use_semantic_chunking /\ semantic_chunks # <<>>

\* vectorstore.add_documents(documents, ids) (lines 575-578): Chroma upserts,
\* an id already in the collection is overwritten, the last of equal ids wins
AddDocuments(store, docs, ids) ==
    [id \in DOMAIN store \cup {ids[k] : k \in 1..Len(ids)} |->
        IF \E k \in 1..Len(ids) : ids[k] = id
        THEN docs[CHOOSE k \in 1..Len(ids) : ids[k] = id /\ \A j \in (k + 1)..Len(ids) : ids[j] # id]
        ELSE store[id]]

\* one run of process_document_with_docling(file_path, doc_id, user_id, db,
\* use_semantic_chunking) on a file whose items are doc
ProcessDocument(doc_id, doc, use_semantic_chunking) ==
    /\ n_runs < MaxRuns
    /\ n_runs' = n_runs + 1
    /\ \E semantic_chunks \in {IF use_semantic_chunking
                               THEN group_elements(RawElements(doc, <<>>)) ELSE <<>>} :
       \E all \in {IF UseSemanticChunks(use_semantic_chunking, semantic_chunks)
                   THEN SemanticChunkDicts(doc_id, semantic_chunks, 0)
                   ELSE ElementChunkDicts(doc)} :
       IF all = <<>>
       THEN /\ run' = [doc_id |-> doc_id, items |-> doc,
                       use_semantic_chunking |-> use_semantic_chunking,
                       n_semantic |-> IF use_semantic_chunking THEN Len(semantic_chunks)
                                      ELSE -1,
                       all_chunks |-> <<>>, chunk_ids |-> <<>>, written |-> {},
                       returned |-> 0]
            /\ UNCHANGED <<vectorstore, documents>>
       ELSE \E all_chunks_1 \in {EnsureChunkIds(doc_id, all)} :
            \E chunk_ids \in {[k \in 1..Len(all_chunks_1) |-> all_chunks_1[k].chunk_id[1]]} :
            \E langchain_docs \in {[k \in 1..Len(all_chunks_1) |->
                                       [page_content |-> all_chunks_1[k].content,
                                        chunk_id |-> all_chunks_1[k].chunk_id,
                                        run |-> n_runs + 1]]} :
               /\ vectorstore' = AddDocuments(vectorstore, langchain_docs, chunk_ids)
               /\ documents' = [d \in DOMAIN documents \cup {doc_id} |->
                                   IF d = doc_id
                                   THEN [status |-> "completed",
                                         chunks_count |-> Len(all_chunks_1)]
                                   ELSE documents[d]]
               /\ run' = [doc_id |-> doc_id, items |-> doc,
                          use_semantic_chunking |-> use_semantic_chunking,
                          n_semantic |-> IF use_semantic_chunking
                                         THEN Len(semantic_chunks) ELSE -1,
                          all_chunks |-> all_chunks_1, chunk_ids |-> chunk_ids,
                          written |-> {chunk_ids[k] : k \in 1..Len(chunk_ids)},
                          returned |-> Len(all_chunks_1)]
    /\ UNCHANGED <<groupVars, expandVars, classifyVars, formulaVars, queryVars>>

InitIngest ==
    /\ GroupStart({IngestChunker}, "idle")
    /\ ExpandIdle
    /\ ClassifyIdle
    /\ FormulaIdle
    /\ IngestIdle /\ QueryIdle

NextIngest ==
    \E doc_id \in DocIds, doc \in DocPool, use_semantic_chunking \in BOOLEAN :
        ProcessDocument(doc_id, doc, use_semantic_chunking)

SpecIngest == InitIngest /\ [][NextIngest]_vars

Distinct(ids) == \A i, j \in 1..Len(ids) : i # j => ids[i] # ids[j]

\* C16: in every run, each chunk handed to the vector store carries a
\* chunk_id in its metadata, is stored under that chunk_id, the chunk_id is
\* '{doc_id}_chunk_{i}' with i the position of the chunk in the persisted
\* list (an id given in the semantic mode is kept and is that position), and
\* the chunk_ids of the run are pairwise distinct.
C16_ChunkIds ==
    n_runs > 0 =>
        /\ \A k \in 1..Len(run.all_chunks) :
              /\ run.all_chunks[k].chunk_id # <<>>
              /\ run.chunk_ids[k] = run.all_chunks[k].chunk_id[1]
              /\ run.chunk_ids[k] = ChunkIdOf(run.doc_id, k - 1)
              /\ run.chunk_ids[k] \in DOMAIN vectorstore
              /\ vectorstore[run.chunk_ids[k]].chunk_id = <<run.chunk_ids[k]>>
              /\ vectorstore[run.chunk_ids[k]].page_content = run.all_chunks[k].content
        /\ Len(run.chunk_ids) = Len(run.all_chunks)
        /\ Distinct(run.chunk_ids)

C16_Witness ==
    /\ n_runs = 2
    /\ ~run.use_semantic_chunking
    /\ Len(run.all_chunks) = 3
    /\ run.doc_id = "doc-b"
    /\ ChunkIdOf("doc-a", 1) \in DOMAIN vectorstore

\* the ids the collection holds for the document of the last run
StoredFor(doc_id) == {id \in DOMAIN vectorstore : id[1] = doc_id}

\* C17: after any sequence of runs, the collection holds for the document
\* of the last run exactly the chunks '{doc_id}_chunk_0' ..
\* '{doc_id}_chunk_{n-1}' of that run, and none of an earlier run.
C17_DeleteThenRecreate ==
    (n_runs > 0 /\ run.returned > 0) =>
        /\ StoredFor(run.doc_id) = {ChunkIdOf(run.doc_id, i) : i \in 0..(run.returned - 1)}
        /\ \A id \in StoredFor(run.doc_id) : vectorstore[id].run = n_runs

\* C18 as stated: a run whose semantic grouping gives no chunk returns 0 and
\* writes nothing to the collection.
C18_AsStated ==
    (n_runs > 0 /\ run.n_semantic = 0) => (run.returned = 0 /\ run.written = {})

\* C18, amended: a run whose semantic grouping gives no chunk goes on element
\* by element; it returns 0 and writes nothing when that gives no chunk
\* either, and otherwise stores the element chunks and returns their number.
C18_NoContentReported ==
    (n_runs > 0 /\ run.n_semantic = 0) =>
        LET element_chunks == ElementChunkDicts(run.items)
        IN  /\ run.returned = Len(element_chunks)
            /\ run.returned = 0 => run.written = {}
            /\ \A k \in 1..Len(element_chunks) :
                   /\ ChunkIdOf(run.doc_id, k - 1) \in run.written
                   /\ vectorstore[ChunkIdOf(run.doc_id, k - 1)].page_content
                          = element_chunks[k].content
                   /\ vectorstore[ChunkIdOf(run.doc_id, k - 1)].run = n_runs

C18_Witness ==
    /\ n_runs = 1
    /\ run.items = DocFormula
    /\ run.n_semantic = 0
    /\ run.returned = 0
    /\ DOMAIN vectorstore = {}

\* the step taken consumed one more element of the stream
Consumed == pc = "loop" /\ Len(elements') = Len(elements) + 1

\* the main buffer as it was when the split decision of the step was taken:
\* the flushed buffer, or the new buffer less the element the step appended
BufferAtDecision ==
    LET t == trace'[Len(trace')]
    IN  IF t.flushed THEN last'.buffer
        ELSE IF t.appended THEN SubSeq(current_buffer', 1, Len(current_buffer') - 1)
        ELSE current_buffer'

\* the step leaves the main buffer, the running length and the chunks alone
\* and appends the trimmed text to the formula buffer
HeldBack(element) ==
    /\ ~trace'[Len(trace')].flushed
    /\ chunks' = chunks
    /\ current_buffer' = current_buffer
    /\ current_length' = current_length
    /\ formula_buffer' = Append(formula_buffer, Strip(element.text))

\* the buffer at the decision is the old buffer plus one 'formula'
\* sub-element holding text, and the running length counts it
OneFormulaJoined(text) ==
    LET pre == BufferAtDecision
    IN  /\ Len(pre) = Len(current_buffer) + 1
        /\ SubSeq(pre, 1, Len(current_buffer)) = current_buffer
        /\ pre[Len(pre)].type = "formula"
        /\ pre[Len(pre)].text = text
        /\ trace'[Len(trace')].length = current_length + Len(text)
        /\ formula_buffer' = <<>>

NoFormulaItem(buffer) == \A i \in 1..Len(buffer) : buffer[i].type # "formula"

\* the last chunk is the one made of the buffer at the decision
FlushedChunkHoldsFormula ==
    /\ chunks' # chunks
    /\ chunks'[Len(chunks')].text = CombinedText(BufferAtDecision)
    /\ "formula" \in chunks'[Len(chunks')].metadata.types

\* C19 as stated: an element that is a formula fragment or of type 'formula'
\* triggers no flush and does not enter the main buffer; the pending run of
\* such elements becomes exactly one 'formula' sub-element, appended and
\* counted before the split decision for the next other element, and when
\* that element triggers a flush the formula is emitted in the flushed chunk
\* and is not in the new buffer.
C19_AsStated ==
    [][Consumed =>
        LET element == elements'[Len(elements')]
            t == trace'[Len(trace')]
        IN  IF is_formula_fragment(Strip(element.text)) \/ element.type = "formula"
            THEN HeldBack(element)
            ELSE formula_buffer # <<>> =>
                    /\ OneFormulaJoined(reconstruct_formula(formula_buffer))
                    /\ t.flushed => (FlushedChunkHoldsFormula /\ NoFormulaItem(current_buffer'))
    ]_vars

\* C19, amended: an element that is a formula fragment or of type 'formula'
\* triggers no flush and does not enter the main buffer; when the next other
\* element arrives, a pending run whose reconstruction is not empty becomes
\* exactly one 'formula' sub-element, appended and counted before the split
\* decision, and one whose reconstruction is empty is dropped; when that
\* element triggers a flush the formula sub-element is in the flushed buffer,
\* hence in the chunk if the flush emits one, and is not in the new buffer.
C19_FormulaJoinsBeforeSplit ==
    [][Consumed =>
        LET element == elements'[Len(elements')]
            t == trace'[Len(trace')]
            reconstructed == reconstruct_formula(formula_buffer)
        IN  IF is_formula_fragment(Strip(element.text)) \/ element.type = "formula"
            THEN HeldBack(element)
            ELSE formula_buffer # <<>> =>
                    /\ reconstructed # <<>> => OneFormulaJoined(reconstructed)
                    /\ reconstructed = <<>> =>
                          (BufferAtDecision = current_buffer /\ formula_buffer' = <<>>
                           /\ t.length = current_length)
                    /\ (t.flushed /\ reconstructed # <<>>) =>
                          /\ NoFormulaItem(current_buffer')
                          /\ t.emitted => FlushedChunkHoldsFormula
    ]_vars

C19_Witness ==
    /\ Len(elements) = 3
    /\ trace[1].routed = "main" /\ trace[1].appended
    /\ trace[2].routed = "formula"
    /\ trace[3].routed = "main" /\ trace[3].flushed /\ trace[3].emitted
    /\ last.at = 2
    /\ last.buffer[Len(last.buffer)].type = "formula"
    /\ NoFormulaItem(current_buffer)

\* streams that end in pending fragments: a three-character fragment, blank
\* texts, plain and formula-typed elements
TxtRelation == <<"a", "=", "b">>

TrailingPool ==
    Elements({TxtFrag, TxtRelation, TxtBlank, TxtShort, TxtLong}, {1},
             {"text", "formula"}, {SecOverview})
    \cup Elements({TxtLong}, {2}, {"text"}, {SecOverview})

NextTrailing == Feed(TrailingPool, MaxElems) \/ EndOfStream
SpecTrailing == Init /\ [][NextTrailing]_vars

\* the step taken is the end of the stream
Returns == pc = "loop" /\ pc' = "done"

\* the final chunk is made of the main buffer plus, as its last sub-element,
\* the reconstruction of the pending fragments
TrailingFormulaInFinalChunk ==
    LET final == Append(current_buffer,
                        [text |-> reconstruct_formula(formula_buffer),
                         page |-> IF current_page = NonePage THEN 0 ELSE current_page,
                         type |-> "formula", element_id |-> Len(elements),
                         section |-> NoSectionKey])
    IN  /\ current_buffer' = final
        /\ chunks' = Append(chunks, MakeChunk(final))

\* every element has a text that is a formula fragment or is blank
OnlyFragmentsAndBlanks ==
    \A i \in 1..Len(elements) :
        is_formula_fragment(Stripped(i)) \/ Stripped(i) = <<>>

\* every element went to the formula buffer
OnlyHeldBack == \A i \in 1..Len(trace) : trace[i].routed = "formula"

\* C20 as stated: at end of stream the pending fragments are reconstructed
\* and appended as the last sub-element of the final chunk when the main
\* buffer is not empty, and dropped when it is empty; a stream with no
\* element whose text is neither a fragment nor blank gives no chunk.
C20_AsStated ==
    [][Returns =>
        /\ (formula_buffer # <<>> /\ current_buffer # <<>>) => TrailingFormulaInFinalChunk
        /\ current_buffer = <<>> => (chunks' = chunks /\ current_buffer' = <<>>)
        /\ OnlyFragmentsAndBlanks => chunks' = <<>>
    ]_vars

\* C20, amended: at end of stream pending fragments whose reconstruction is
\* not empty are appended as the last sub-element of the final chunk when the
\* main buffer is not empty; they are dropped when the main buffer is empty
\* or the reconstruction is empty; a stream all of whose elements went to the
\* formula buffer, the empty stream included, gives no chunk.
C20_TrailingFormula ==
    [][Returns =>
        /\ (formula_buffer # <<>> /\ current_buffer # <<>>
               /\ reconstruct_formula(formula_buffer) # <<>>) => TrailingFormulaInFinalChunk
        /\ (formula_buffer # <<>> /\ reconstruct_formula(formula_buffer) = <<>>) =>
              (current_buffer' = current_buffer
               /\ chunks' = chunks \o _create_chunk(current_buffer))
        /\ current_buffer = <<>> => (chunks' = chunks /\ current_buffer' = <<>>)
        /\ OnlyHeldBack => chunks' = <<>>
    ]_vars

C20_Witness ==
    /\ pc = "done"
    /\ Len(elements) = 3
    /\ formula_buffer = <<TxtFrag, TxtRelation>>
    /\ Len(chunks) = 1
    /\ chunks[1].element_ids = <<0, 3>>
    /\ chunks[1].chunk_type = "mixed"

-----------------------------------------------------------------------------
(* The size rule of group_elements.                                        *)

\* configurations in which the incoming element alone can exceed the maximum
\* (6/8), in which it cannot (6/12), and with no minimum at all (0/3)
SizeConfigs == { <<6, 12, 3>>, <<6, 8, 0>>, <<0, 3, 0>> }

InitSizes ==
    GroupStart(SizeConfigs, "loop") /\ ExpandIdle /\ ClassifyIdle /\ FormulaIdle /\ IngestIdle /\ QueryIdle

SpecSizes == InitSizes /\ [][Next]_vars

\* element j is no formula fragment and arrived with no page change and no
\* qualifying section change
QuietStep(j) ==
    /\ ~is_formula_fragment(Stripped(j))
    /\ ~(trace[j].page # NonePage /\ elements[j].page # trace[j].page)
    /\ ~trace[j].section_changed

\* the size condition of line 266 at step j, on the running length at the
\* decision
SizeCondition(j) ==
    /\ trace[j].length + Len(Stripped(j)) > max_chunk_size
    /\ trace[j].length >= min_chunk_size

\* C21 as stated: a non-fragment element that arrives with no page change and
\* no qualifying section change flushes the buffer if and only if the running
\* length plus the length of its text exceeds max_chunk_size and the running
\* length is at least min_chunk_size.
C21_AsStated ==
    \A j \in 1..Len(trace) : QuietStep(j) => (trace[j].flushed <=> SizeCondition(j))

\* C21, amended: a non-fragment element whose type is not 'formula' and that
\* arrives with no page change and no qualifying section change flushes the
\* buffer if and only if the buffer is non-empty, the running length plus the
\* length of its text exceeds max_chunk_size and the running length is at least
\* min_chunk_size; a buffer whose running length is below min_chunk_size is not
\* flushed at such a step, however long the element is.
C21_SizeRule ==
    \A j \in 1..Len(trace) :
        (QuietStep(j) /\ elements[j].type # "formula") =>
            /\ trace[j].routed = "main"
            /\ trace[j].flushed <=> (SizeCondition(j) /\ trace[j].n_before > 0)
            /\ trace[j].length < min_chunk_size => ~trace[j].flushed

C21_Witness ==
    /\ Len(trace) = 3
    /\ \A j \in 2..3 : QuietStep(j) /\ elements[j].type = "text"
    /\ trace[2].length < min_chunk_size
    /\ trace[2].length + Len(Stripped(2)) > max_chunk_size
    /\ ~trace[2].flushed
    /\ trace[3].flushed
    /\ trace[3].emitted

-----------------------------------------------------------------------------
(* The buffer after a flush.                                               *)

\* the last n characters of s, all of s when it has no more than n
Suffix(s, n) == IF Len(s) <= n THEN s ELSE SubSeq(s, Len(s) - n + 1, Len(s))

\* the texts of a buffer joined by single spaces
SpaceJoined(buffer) == Join(<<" ">>, [i \in 1..Len(buffer) |-> buffer[i].text])

\* the loop has just flushed: the last consumed element caused a flush
JustFlushed ==
    /\ pc = "loop"
    /\ Len(trace) > 0
    /\ trace[Len(trace)].flushed

\* what the element consumed last left in the buffer after the seed: itself
\* when its text is non-empty
OwnEntry ==
    LET j == Len(elements)
    IN  IF Stripped(j) = <<>> THEN <<>>
        ELSE <<Item(Stripped(j), elements[j].page, elements[j].type, j - 1,
                    elements[j].section_header)>>

\* C22: after every flush, whether or not it emitted a chunk, the new buffer
\* is seeded, before the incoming element is appended, with exactly one
\* synthetic element when overlap_size > 0: its text is the last overlap_size
\* characters of the flushed buffer's space-joined text (the whole text when
\* that is not longer), its page is the incoming element's page, and the
\* running length restarts at the length of that text; when overlap_size = 0
\* the buffer restarts empty and the running length at 0.
C22_SeedAfterFlush ==
    JustFlushed =>
        LET j    == Len(elements)
            seed == Suffix(SpaceJoined(last.buffer), overlap_size)
        IN  /\ last.at = j - 1
            /\ last.buffer # <<>>
            /\ trace[j].emitted <=> (last.chunk # <<>>)
            /\ IF overlap_size > 0
               THEN /\ Len(current_buffer) = 1 + Len(OwnEntry)
                    /\ current_buffer[1].text = seed
                    /\ current_buffer[1].page = elements[j].page
                    /\ Tail(current_buffer) = OwnEntry
                    /\ current_length = Len(seed) + Len(Stripped(j))
               ELSE /\ current_buffer = OwnEntry
                    /\ current_length = Len(Stripped(j))

\* two flushes with overlap: the first emits nothing and carries the whole
\* short text over, the second emits and carries the last three characters
C22_Witness ==
    /\ JustFlushed
    /\ overlap_size = 3
    /\ Len(trace) = 3
    /\ trace[2].flushed
    /\ ~trace[2].emitted
    /\ trace[3].emitted
    /\ Len(SpaceJoined(last.buffer)) > overlap_size
    /\ last.buffer[1].text = <<"a", "1">>
    /\ current_buffer[1].page # last.buffer[1].page

-----------------------------------------------------------------------------
(* The page of a chunk.                                                    *)

\* the last call of _create_chunk emitted a chunk
JustEmitted == last.at >= 0 /\ last.chunk # <<>>

\* a buffer entry made by the overlap carry-over of lines 276-279: type
\* 'text' and no 'section' key
IsOverlapSeed(item) == item.type = "text" /\ item.section = NoSectionKey

\* a buffer entry made from reconstructed fragments (lines 241-246, 301-306)
IsFormulaEntry(item) == item.type = "formula" /\ item.section = NoSectionKey

\* C23: the page of every emitted chunk is the page recorded on the first
\* sub-element of its buffer at emission time, whatever the pages of the
\* sub-elements that joined later; when that first sub-element is an overlap
\* carry-over, it is the page of the element that triggered the preceding
\* flush.
C23_ChunkPage ==
    JustEmitted =>
        LET chunk == last.chunk[1]
            first == last.buffer[1]
        IN  /\ chunks[last.n_chunks + 1] = chunk
            /\ chunk.page = first.page
            /\ IsOverlapSeed(first) =>
                   /\ trace[first.element_id + 1].flushed
                   /\ \A k \in (first.element_id + 2)..last.at : ~trace[k].flushed
                   /\ chunk.page = elements[first.element_id + 1].page

\* a chunk on page 2 whose buffer began with a carry-over and ended with a
\* sub-element recorded on page 1
C23_Witness ==
    /\ JustEmitted
    /\ IsOverlapSeed(last.buffer[1])
    /\ last.chunk[1].page = 2
    /\ last.buffer[Len(last.buffer)].page = 1
    /\ Len(chunks) = 2

-----------------------------------------------------------------------------
(* The order of the chunks.                                                *)

\* the chunk last emitted stands at the end of the list
LastEmittedIsLast ==
    last.at >= 0 => chunks = SubSeq(chunks, 1, last.n_chunks) \o last.chunk

\* C24: chunks are emitted in flush order, each behind the chunks emitted
\* before it, and for any two chunks at output positions i < j every entry of
\* chunk i's element_ids is less than or equal to every entry of chunk j's
\* element_ids.
C24_ChunkOrder ==
    /\ LastEmittedIsLast
    /\ \A i, j \in 1..Len(chunks) :
           i < j =>
               \A a \in 1..Len(chunks[i].element_ids),
                  b \in 1..Len(chunks[j].element_ids) :
                   chunks[i].element_ids[a] <= chunks[j].element_ids[b]

\* three chunks; the first two share the index of the element that flushed
C24_Witness ==
    /\ pc = "done"
    /\ Len(chunks) = 3
    /\ overlap_size > 0
    /\ chunks[1].element_ids = <<0, 2>>
    /\ chunks[2].element_ids = <<2, 2>>

-----------------------------------------------------------------------------
(* What grouping keeps of the input.                                       *)

\* the text of element i as a chunk shows it: stripped, whitespace collapsed
ShownText(i) == Strip(CollapseWs(Stripped(i)))

\* element i appears with its full text in an emitted chunk
KeptInFull(i) == \E c \in 1..Len(chunks) : Contains(chunks[c].text, ShownText(i))

\* the final buffer was a single sub-element shorter than min_chunk_size
FinalShortSingleton ==
    /\ Len(current_buffer) = 1
    /\ Len(CombinedText(current_buffer)) < min_chunk_size

\* C25: no content is lost by grouping: when group_elements has returned,
\* each element with non-empty text that is no formula fragment appears with
\* its full text in at least one emitted chunk, unless the final buffer was a
\* single element shorter than min_chunk_size.
C25_NoContentLost ==
    (pc = "done" /\ ~FinalShortSingleton) =>
        \A i \in 1..Len(elements) :
            (Stripped(i) # <<>> /\ ~is_formula_fragment(Stripped(i))) => KeptInFull(i)

-----------------------------------------------------------------------------
(* The pages inside a chunk.                                               *)

\* a buffer entry made from an input element (lines 286-292)
IsRealEntry(item) == item.section # NoSectionKey

\* C26: every emitted chunk is page-homogeneous: every input element that was
\* buffered into the chunk is on the chunk's page.
C26_PageHomogeneous ==
    JustEmitted =>
        \A k \in 1..Len(last.buffer) :
            IsRealEntry(last.buffer[k]) =>
                elements[last.buffer[k].element_id + 1].page = last.chunk[1].page

-----------------------------------------------------------------------------
(* The section of a chunk.                                                 *)

\* the positions of the buffer entries made from input elements
RealEntries(buffer) == {k \in 1..Len(buffer) : IsRealEntry(buffer[k])}

\* C27: for every emitted chunk, metadata['section'] equals the section_header
\* of the first input element buffered into the chunk, also when the buffer
\* begins with an overlap carry-over or a reconstructed formula.
C27_SectionOfFirstReal ==
    (JustEmitted /\ RealEntries(last.buffer) # {}) =>
        LET k == CHOOSE k \in RealEntries(last.buffer) :
                     \A m \in RealEntries(last.buffer) : k <= m
        IN  last.chunk[1].metadata.section
                = elements[last.buffer[k].element_id + 1].section_header

-----------------------------------------------------------------------------
(* query_documents (rag.py).                                               *)

\* the metadata of a stored chunk, as ingestion writes it
StoredChunks ==
    { [chunk_id |-> ChunkIdOf(d, i), page |-> p, document_id |-> d] :
          d \in DocIds, i \in 0..MaxStoredIdx, p \in 1..2 }

\* the collections: up to MaxStored chunks with distinct ids, in any order of
\* similarity to the question
Collections ==
    { c \in UNION { [1..n -> StoredChunks] : n \in 0..MaxStored } :
          \A i, j \in 1..Len(c) : c[i].chunk_id = c[j].chunk_id => i = j }

\* vectorstore.similarity_search_with_score(query, k): the k most similar
\* documents (scores left out)
similarity_search_with_score(k) ==
    SubSeq(collection, 1, IF k < Len(collection) THEN k ELSE Len(collection))

\* vectorstore.similarity_search(query, k=1, filter={page, document_id}): the
\* most similar document that matches the filter, if any
similarity_search(page, doc_id) ==
    LET Matches(d) == d.page = page /\ d.document_id = doc_id
        matching   == SelectSeq(collection, Matches)
    IN  SubSeq(matching, 1, IF matching = <<>> THEN 0 ELSE 1)

\* range(-n_before, n_after + 1) without 0, from offset on
RECURSIVE Offsets(_, _)
Offsets(offset, n_after_) ==
    IF offset > n_after_ THEN <<>>
    ELSE (IF offset = 0 THEN <<>> ELSE <<offset>>) \o Offsets(offset + 1, n_after_)

\* lines 238-257 for one direct hit: one filtered search per offset
RECURSIVE NeighborsOf(_, _)
NeighborsOf(doc, offsets) ==
    IF offsets = <<>> THEN <<>>
    ELSE LET neighbor_page == doc.page + (Head(offsets) \div 3)
         IN  similarity_search(neighbor_page, doc.document_id)
             \o NeighborsOf(doc, Tail(offsets))

\* lines 230-257: neighbor_docs
RECURSIVE NeighborDocs(_, _)
NeighborDocs(hits, offsets) ==
    IF hits = <<>> THEN <<>>
    ELSE NeighborsOf(Head(hits), offsets) \o NeighborDocs(Tail(hits), offsets)

\* line 260: the comprehension reads the variable metadata of the enclosing
\* function, which the loop of line 231 left at the last direct hit
ExistingIds(hits) == { hits[Len(hits)].chunk_id }

\* lines 261-265: the neighbours whose id is not yet in existing_ids
RECURSIVE UniqueNeighbors(_, _)
UniqueNeighbors(neighbor_docs, existing_ids) ==
    IF neighbor_docs = <<>> THEN <<>>
    ELSE LET neighbor_id == Head(neighbor_docs).chunk_id
         IN  IF neighbor_id \notin existing_ids
             THEN <<Head(neighbor_docs)>>
                  \o UniqueNeighbors(Tail(neighbor_docs), existing_ids \cup {neighbor_id})
             ELSE UniqueNeighbors(Tail(neighbor_docs), existing_ids)

\* lines 222-267: expanded_results
ExpandedResults(hits, expand, before, after) ==
    IF expand /\ Len(hits) > 0
    THEN hits \o UniqueNeighbors(NeighborDocs(hits, Offsets(-before, after)),
                                 ExistingIds(hits))
    ELSE hits

\* lines 270-296: chunk_data, without text, score and images
ContextChunks(expanded_results, n_hits) ==
    [ idx \in 1..Len(expanded_results) |->
        [ id          |-> expanded_results[idx].chunk_id,
          metadata    |-> expanded_results[idx],
          is_neighbor |-> idx > n_hits ] ]

\* one call of query_documents
QueryDocuments ==
    /\ qpc = "call"
    /\ qpc' = "done"
    /\ \E k \in 1..MaxTopK, expand \in BOOLEAN,
          before \in 0..MaxOffset, after \in 0..MaxOffset :
          /\ top_k' = k
          /\ expand_neighbors' = expand
          /\ query_before' = before
          /\ query_after' = after
          /\ \E hits \in {similarity_search_with_score(k)} :
                /\ results' = hits
                /\ context_chunks' =
                       ContextChunks(ExpandedResults(hits, expand, before, after),
                                     Len(hits))
    /\ UNCHANGED collection
    /\ UNCHANGED <<groupVars, expandVars, classifyVars, formulaVars, ingestVars>>

InitQuery ==
    /\ GroupIdle /\ ExpandIdle /\ ClassifyIdle /\ FormulaIdle /\ IngestIdle
    /\ collection \in Collections
    /\ top_k = 5
    /\ expand_neighbors = TRUE
    /\ query_before = 1
    /\ query_after = 1
    /\ results = <<>>
    /\ context_chunks = <<>>
    /\ qpc = "call"

NextQuery == QueryDocuments

SpecQuery == InitQuery /\ [][NextQuery]_vars

\* C28: with neighbour expansion enabled, the chunk list returned by
\* query_documents contains no chunk_id twice, and no chunk flagged
\* is_neighbor has the chunk_id of one of the direct similarity hits.
C28_NoDuplicateIds ==
    (qpc = "done" /\ expand_neighbors) =>
        /\ Distinct([i \in 1..Len(context_chunks) |-> context_chunks[i].id])
        /\ \A i \in 1..Len(context_chunks) :
               context_chunks[i].is_neighbor =>
                   \A h \in 1..Len(results) : results[h].chunk_id # context_chunks[i].id

\* C29: for every chunk list of length n and every target list, including
\* targets that are negative or >= n, expand_context_with_neighbors returns
\* without raising, and returns only chunks at positions within 0..n-1, in
\* ascending position order.
C29_ExpandAnyTarget ==
    Returned =>
        /\ xpc = "done"
        /\ \A k \in 1..Len(result) :
               0 <= ResultPositions[k] /\ ResultPositions[k] < Len(all_chunks)
        /\ \A k \in 1..(Len(result) - 1) : ResultPositions[k] < ResultPositions[k + 1]

-----------------------------------------------------------------------------
(* The metadata of a chunk.                                                *)

\* C30: for every emitted chunk, metadata['has_formula'] is true if and only
\* if chunk_type is 'formula' or 'mixed', and metadata['num_elements'] equals
\* the length of element_ids.
C30_MetadataConsistent ==
    \A c \in 1..Len(chunks) :
        /\ chunks[c].metadata.has_formula <=> (chunks[c].chunk_type \in {"formula", "mixed"})
        /\ chunks[c].metadata.num_elements = Len(chunks[c].element_ids)

\* a 'formula' chunk made of a table and an equation, then a 'table' chunk
C30_Witness ==
    /\ pc = "done"
    /\ Len(chunks) = 2
    /\ chunks[1].metadata.has_formula
    /\ chunks[1].chunk_type = "formula"
    /\ chunks[1].metadata.types = {"table", "equation"}
    /\ chunks[1].metadata.num_elements = 2
    /\ ~chunks[2].metadata.has_formula
    /\ chunks[2].chunk_type = "table"

====
